---- MODULE Spec2Model ----
(***************************************************************************)
(* The scheduled ingestion / dedup / notify pipeline of the lead bot       *)
(* (scheduler module: cron callback, executeMainTask, processRegion,       *)
(* processRecordsOptimized, getOrCreateProcessedMessage,                   *)
(* sendMessageToUsers) and the on-demand triggerImmediateParse.            *)
(*                                                                         *)
(* Every `await` of the source is an interleaving point: an action is the  *)
(* code that runs from the resumption of one awaited call up to the next   *)
(* awaited call.  The outcome of an awaited external call (registry,       *)
(* database, LLM, Telegram) is chosen nondeterministically.                *)
(*                                                                         *)
(* Strings whose content the code inspects are sequences of one-character  *)
(* strings.  Cyrillic text is transliterated: "ne trebuetsya" stands for   *)
(* the sentinel of the relevance check, the token "CITY" / "HOUSE" for the *)
(* two emoji the cache predicate looks for.                                *)
(*                                                                         *)
(* The chat interface (bot.ts: the 'message' listener, hasAccess, the      *)
(* region and user handlers) runs one activation per update; activations   *)
(* of the listener interleave at the awaits of their database calls.  An   *)
(* await of safeSendMessage changes no state of the program and is folded  *)
(* into the step before it; what was sent is kept as history.              *)
(***************************************************************************)
EXTENDS Integers, Sequences, FiniteSets, TLC

\* ------------------------------------------------------------------ bounds
\* cron firings that may start a run (run slots), per specification
MaxRuns == 2
MaxRunsSched == 3
MaxRunsFair == 2
\* invocations of triggerImmediateParse
MaxTriggers == 1
\* longest regions array of a stored configuration
MaxRegionList == 2
\* cron firings the model follows
MaxInstants == 5

\* --------------------------------------------------------- program constants
MAX_EXECUTION_TIME == 30 * 60 * 1000
CRON_PERIOD == 15 * 60 * 1000

\* ------------------------------------------------------------------ strings
WHITESPACE == {" "}

\* String.prototype.toLowerCase on the letters the data uses
UPPER ==
    <<"A","B","C","D","E","F","G","H","I","J","K","L","M",
      "N","O","P","Q","R","S","T","U","V","W","X","Y","Z">>
LOWER ==
    <<"a","b","c","d","e","f","g","h","i","j","k","l","m",
      "n","o","p","q","r","s","t","u","v","w","x","y","z">>

LowerOf(c) ==
    IF \E i \in 1..Len(UPPER) : UPPER[i] = c
    THEN LOWER[CHOOSE i \in 1..Len(UPPER) : UPPER[i] = c]
    ELSE c

toLowerCase(s) == [i \in 1..Len(s) |-> LowerOf(s[i])]

RECURSIVE TrimLeft(_)
TrimLeft(s) ==
    IF s # <<>> /\ Head(s) \in WHITESPACE THEN TrimLeft(Tail(s)) ELSE s

RECURSIVE TrimRight(_)
TrimRight(s) ==
    IF s # <<>> /\ s[Len(s)] \in WHITESPACE
    THEN TrimRight(SubSeq(s, 1, Len(s) - 1))
    ELSE s

\* String.prototype.trim
trim(s) == TrimRight(TrimLeft(s))

\* a JavaScript string is truthy iff it is not empty
Truthy(s) == s # <<>>

\* 'ne trebuetsya': the sentinel of the relevance check
NOT_REQUIRED == <<"n","e"," ","t","r","e","b","u","e","t","s","y","a">>

\* ------------------------------------------------------------------- data
User1 == 101
User2 == 102
Users == {User1, User2}

Regions == {"Vologda - 35", "Piter - 78"}
RegionA == "Vologda - 35"
RegionB == "Piter - 78"

NumX == <<"X">>
NumY == <<"Y">>
NumNone == <<>>
Nums == {NumX, NumY, NumNone}

DevRomashka == <<"O","O","O"," ","R">>
DevNotRequired == <<" ","N","e"," ","T","r","e","b","u","e","t","s","y","a"," ">>
\* a developer name that carries the house emoji
DevWithMarker == <<"O","O","O"," ","HOUSE">>

\* IEgrzRecord: the two fields the pipeline inspects
Rec(n, d) == [num |-> n, dev |-> d]
RecX == Rec(NumX, DevRomashka)
RecY == Rec(NumY, DevRomashka)
RecSkip == Rec(NumY, DevNotRequired)
RecNoNum == Rec(NumNone, DevRomashka)
RecMarked == Rec(NumY, DevWithMarker)

\* registry snapshots: region -> rows the API returns for today
RegistrySnapshots ==
    { [r \in Regions |-> IF r = RegionA THEN <<RecX>> ELSE <<RecY>>],
      [r \in Regions |-> IF r = RegionA THEN <<RecX, RecX>> ELSE <<RecSkip>>],
      [r \in Regions |-> IF r = RegionA THEN <<RecNoNum, RecX>> ELSE <<>>] }

\* configData of a Configuration row: unparseable JSON, or the parsed object
\* (its regions array; hasRegions = FALSE when the key is missing)
Corrupt == [ok |-> FALSE, hasRegions |-> FALSE, regions |-> <<>>]
Cfg(rs) == [ok |-> TRUE, hasRegions |-> TRUE, regions |-> rs]
NoRegionsKey == [ok |-> TRUE, hasRegions |-> FALSE, regions |-> <<>>]

\* Configuration table: rows in the order findAll returns them
ConfigTables ==
    { << [userId |-> User1, configData |-> Cfg(<<RegionA, RegionB>>)],
         [userId |-> User2, configData |-> Cfg(<<RegionA>>)] >>,
      << [userId |-> User1, configData |-> Cfg(<<RegionA, RegionA>>)],
         [userId |-> User2, configData |-> Corrupt] >>,
      << [userId |-> User1, configData |-> Cfg(<<>>)],
         [userId |-> User2, configData |-> NoRegionsKey] >> }

\* notification texts: a validated LLM answer (two variants, the LLM is not
\* deterministic) or the template fallback rendered from the record
AiText(v) == [kind |-> "ai", v |-> v, num |-> <<>>, dev |-> <<>>]
FallbackText(rec) == [kind |-> "fallback", v |-> 0, num |-> rec.num, dev |-> rec.dev]
NoText == [kind |-> "none", v |-> 0, num |-> <<>>, dev |-> <<>>]

\* values processLeadWithAI may resolve to for a record
AiOutcomes(rec) == {AiText(1), AiText(2), FallbackText(rec)}

\* messageText.includes(marker), marker one of the emoji tokens
includes(text, marker) ==
    CASE text.kind = "ai" -> TRUE
      [] text.kind = "fallback" ->
            (\E i \in 1..Len(text.num) : text.num[i] = marker)
            \/ (\E i \in 1..Len(text.dev) : text.dev[i] = marker)
      [] OTHER -> FALSE

\* config.ADMIN_TELEGRAM_IDS, and the chats that write to the bot
AdminChat == 100
ADMIN_TELEGRAM_IDS == {AdminChat}
Chats == Users \cup ADMIN_TELEGRAM_IDS

\* ------------------------------------------------------------------ state
VARIABLES
    now,            \* Date.now() at the latest cron firing, in ms
    isTaskRunning,  \* the run-lock
    taskStartTime,  \* Date.now() when the lock was last taken
    runs,           \* cron callbacks that started executeMainTask, by slot
    nextRun,        \* the slot the next started run takes
    trigs,          \* invocations of triggerImmediateParse, by slot
    registry,       \* what the registry API returns today, per region
    configs,        \* table configurations
    cache,          \* table processed_leads: conclusionNumber -> text
    parsedData,     \* table parsed_data: number of rows per (userId, dataContent)
    sendOk,         \* history: successful record sends per (userId, number)
    deliveredBy,    \* history: who sent and recorded a pair ("sched", "trigger")
    reattempted,    \* history: a send that had failed was issued again by
                    \* the same run or trigger invocation
    statistics,     \* what logFinalStatistics was last called with
    fetchCall,      \* one call of fetchEgrzDataWithRetry, attempt by attempt
    aiCall,         \* one call of processLeadWithAI, attempt by attempt
    users,          \* table users: rows (username, userId, live), by id
    userAction,     \* the userAction map of bot.ts: chat -> pending action
    handlers,       \* activations of the 'message' listener, by slot
    inbox           \* updates polling has not handed to the listener yet

vars == << now, isTaskRunning, taskStartTime, runs, nextRun, trigs,
           registry, configs, cache, parsedData, sendOk, deliveredBy,
           reattempted, statistics, fetchCall, aiCall,
           users, userAction, handlers, inbox >>

\* the state of the chat interface
botVars == << users, userAction, handlers, inbox >>

Pairs == Users \X Nums

\* ProcessingResult
ZeroResult(region) ==
    [region |-> region, totalRecords |-> 0, processedRecords |-> 0,
     skippedRecords |-> 0, errorRecords |-> 0]

\* the entry executeMainTask pushes when processRegion throws
ErrorResult(region) ==
    [region |-> region, totalRecords |-> 0, processedRecords |-> 0,
     skippedRecords |-> 0, errorRecords |-> 1]

NoBatch == [u \in Users |-> "none"]

\* the locals of one cron callback / executeMainTask activation;
\* startedAt, afterCompleteRun, cacheHit, failedSends, fetchFailed, logged and
\* released are history (afterCompleteRun: when the callback started, an
\* earlier run had logged its statistics and no run was executing; cacheHit:
\* the text of the current record was returned from the cache)
IdleRun ==
    [pc |-> "idle", regionUserMaps |-> <<>>, ri |-> 0, records |-> <<>>,
     k |-> 0, sentCombinations |-> {}, usersToSend |-> <<>>,
     messageText |-> NoText, cacheHit |-> FALSE, batch |-> NoBatch,
     result |-> ZeroResult(""), results |-> <<>>,
     startedAt |-> 0, afterCompleteRun |-> FALSE,
     failedSends |-> {}, fetchFailed |-> {},
     logged |-> FALSE, released |-> FALSE]

\* ------------------------------------------------- collectRegionUserMaps
\* mutant: the key is created again on every occurrence of the region
HasRegionNever(map, region) == FALSE

\* regionToUsersMap.has(region)
HasRegion(map, region) == \E i \in 1..Len(map) : map[i].region = region

InSeq(x, s) == \E i \in 1..Len(s) : s[i] = x

\* mutant: the subscribers of a region kept in an array, not in a Set
AddToList(userIds, userId) == Append(userIds, userId)

\* regionToUsersMap.get(region).add(userId): a Set keeps the first insertion
AddToSet(userIds, userId) ==
    IF InSeq(userId, userIds) THEN userIds ELSE Append(userIds, userId)

\* the body of the inner loop: create the key on first use, then add the
\* user (before and m are bound once each, as values)
AddSubscriber(map, region, userId) ==
    CHOOSE after \in
        { [i \in 1..Len(m) |->
               IF m[i].region = region
               THEN [m[i] EXCEPT !.userIds = AddToSet(@, userId)]
               ELSE m[i]] :
          m \in { IF HasRegion(before, region)
                  THEN before
                  ELSE Append(before, [region |-> region, userIds |-> <<>>]) :
                  before \in {map} } } : TRUE

RECURSIVE AddRegions(_, _, _, _)
AddRegions(map, regions, userId, i) ==
    IF i > Len(regions) THEN map
    ELSE AddRegions(AddSubscriber(map, regions[i], userId), regions, userId, i + 1)

\* mutant: a corrupt blob discards what was aggregated before it
AddConfigCorruptResets(map, row) ==
    IF ~row.configData.ok THEN <<>>
    ELSE IF row.configData.hasRegions /\ Len(row.configData.regions) > 0
         THEN AddRegions(map, row.configData.regions, row.userId, 1)
         ELSE map

\* one Configuration row: JSON.parse throws on a corrupt blob (caught, row
\* skipped); rows without a non-empty regions array contribute nothing
AddConfig(map, row) ==
    IF ~row.configData.ok THEN map
    ELSE IF row.configData.hasRegions /\ Len(row.configData.regions) > 0
         THEN AddRegions(map, row.configData.regions, row.userId, 1)
         ELSE map

RECURSIVE FoldConfigs(_, _, _)
FoldConfigs(map, rows, i) ==
    IF i > Len(rows) THEN map
    ELSE FoldConfigs(AddConfig(map, rows[i]), rows, i + 1)

\* the RegionUserMap[] returned when Configuration.findAll resolves
collectRegionUserMaps(rows) == FoldConfigs(<<>>, rows, 1)

\* ------------------------------------------------ processIndividualRecord
\* mutant: the comparison without the trim
IsNotRequiredUntrimmed(developerInfo) == toLowerCase(developerInfo) = NOT_REQUIRED

\* the relevance check on the developer-info field
IsNotRequired(developerInfo) == toLowerCase(trim(developerInfo)) = NOT_REQUIRED

\* mutant: no subscriber is filtered out
UsersToSendAll(userIds, sentCombinations, uniqueNumber) == userIds

\* userIds.filter(userId => !sentCombinations.has(`${userId}:${uniqueNumber}`))
UsersToSend(userIds, sentCombinations, uniqueNumber) ==
    SelectSeq(userIds, LAMBDA u : << u, uniqueNumber >> \notin sentCombinations)

\* records.map(number).filter(num => num && num.trim())
AllConclusionNumbers(records) ==
    { records[i].num : i \in { j \in 1..Len(records) :
                                 Truthy(records[j].num) /\ Truthy(trim(records[j].num)) } }

\* The synchronous part of the record loop of processRecordsOptimized: from
\* row k on, rows that return before the first await of
\* processIndividualRecord are consumed; the result is the first row that
\* reaches getOrCreateProcessedMessage (or Len + 1) and the updated counters.
RECURSIVE NextAsyncRecord(_, _, _, _, _)
NextAsyncRecord(records, k, userIds, sentCombinations, result) ==
    IF k > Len(records) THEN [k |-> k, result |-> result]
    ELSE LET rec == records[k] IN
         IF ~Truthy(trim(rec.num))
         THEN NextAsyncRecord(records, k + 1, userIds, sentCombinations,
                              [result EXCEPT !.skippedRecords = @ + 1])
         ELSE IF IsNotRequired(rec.dev)
         THEN NextAsyncRecord(records, k + 1, userIds, sentCombinations,
                              [result EXCEPT !.skippedRecords = @ + 1])
         ELSE IF UsersToSend(userIds, sentCombinations, rec.num) = <<>>
         THEN NextAsyncRecord(records, k + 1, userIds, sentCombinations, result)
         ELSE [k |-> k, result |-> result]

\* ----------------------------------------------------------- cron callback
\* cron.schedule('*/15 * * * *'): the next firing, CRON_PERIOD after the last
NextFiring == now + CRON_PERIOD
MayFire == NextFiring <= MaxInstants * CRON_PERIOD

\* mutant: the staleness test with >= in place of >
LockIsStaleAtLimit(currentTime) == currentTime - taskStartTime >= MAX_EXECUTION_TIME

\* executionTime > SCHEDULER_CONFIG.MAX_EXECUTION_TIME
LockIsStale(currentTime) == currentTime - taskStartTime > MAX_EXECUTION_TIME

\* mutant: a held lock is never force-cleared
CallbackStartsOnlyWhenFree(currentTime) == ~isTaskRunning

\* the callback goes on to start a run: lock free, or stale and force-cleared
CallbackStarts(currentTime) == ~isTaskRunning \/ LockIsStale(currentTime)

\* lock held and not stale: log and return
CronSkip ==
    /\ MayFire
    /\ ~CallbackStarts(NextFiring)
    /\ now' = NextFiring
    /\ UNCHANGED << isTaskRunning, taskStartTime, runs, nextRun, trigs,
                    registry, configs, cache, parsedData, sendOk, deliveredBy,
                    reattempted, statistics, fetchCall, aiCall,
                    users, userAction, handlers, inbox >>

\* lock taken; executeMainTask runs up to its first await
\* (Configuration.findAll in collectRegionUserMaps)
CronStart ==
    /\ MayFire
    /\ CallbackStarts(NextFiring)
    /\ nextRun <= Len(runs)
    /\ now' = NextFiring
    /\ isTaskRunning' = TRUE
    /\ taskStartTime' = NextFiring
    /\ runs' = [runs EXCEPT ![nextRun] =
                    [IdleRun EXCEPT !.pc = "collect", !.startedAt = NextFiring,
                                    !.afterCompleteRun =
                                        /\ statistics.logged
                                        /\ \A s \in 1..(nextRun - 1) : runs[s].pc = "done"]]
    /\ nextRun' = nextRun + 1
    /\ UNCHANGED << trigs, registry, configs, cache, parsedData, sendOk,
                    deliveredBy, reattempted, statistics, fetchCall, aiCall,
                    users, userAction, handlers, inbox >>

\* -------------------------------------------------- continuations of a run
\* try/catch/finally of the callback: the error is logged, the lock released
Finally(r) == [r EXCEPT !.pc = "done", !.released = TRUE]

\* the region loop of executeMainTask at index ri: processRegion up to its
\* await of fetchEgrzDataWithRetry, or logFinalStatistics and the finally
EnterRegion(r, ri) ==
    IF ri > Len(r.regionUserMaps)
    THEN Finally([r EXCEPT !.ri = ri, !.logged = TRUE])
    ELSE [r EXCEPT !.pc = "fetch", !.ri = ri,
                   !.result = ZeroResult(r.regionUserMaps[ri].region),
                   !.records = <<>>, !.k = 0, !.sentCombinations = {},
                   !.usersToSend = <<>>, !.messageText = NoText,
                   !.cacheHit = FALSE]

\* mutant: the error entry is pushed but the region loop ends there
RegionThrewEndsLoop(r) ==
    Finally([r EXCEPT !.results = Append(@, ErrorResult(r.regionUserMaps[r.ri].region)),
                      !.logged = TRUE])

\* processRegion threw: its catch counts the error on the result it then
\* discards and rethrows; the catch of executeMainTask pushes a fresh entry
\* and the loop goes on with the next region (no sleep on this path)
RegionThrew(r) ==
    EnterRegion([r EXCEPT !.results = Append(@, ErrorResult(r.regionUserMaps[r.ri].region))],
                r.ri + 1)

\* processRegion returned: results.push(result); await sleep(1000)
RegionReturned(r) ==
    [r EXCEPT !.pc = "sleep", !.results = Append(@, r.result),
              !.records = <<>>, !.k = 0, !.sentCombinations = {},
              !.usersToSend = <<>>, !.messageText = NoText,
              !.cacheHit = FALSE]

CurrentUserIds(r) == r.regionUserMaps[r.ri].userIds

\* the record loop of processRecordsOptimized from row k on, up to the
\* await of getOrCreateProcessedMessage
EnterRecords(r, k) ==
    LET nx == NextAsyncRecord(r.records, k, CurrentUserIds(r),
                              r.sentCombinations, r.result)
    IN IF nx.k > Len(r.records)
       THEN RegionReturned([r EXCEPT !.result = nx.result])
       ELSE [r EXCEPT !.pc = "cacheFind", !.k = nx.k, !.result = nx.result,
                      !.usersToSend = UsersToSend(CurrentUserIds(r),
                                                  r.sentCombinations,
                                                  r.records[nx.k].num),
                      !.messageText = NoText, !.cacheHit = FALSE]

\* messageText && (messageText.includes(CITY) || messageText.includes(HOUSE))
TextTruthy(text) == text.kind # "none"
Cacheable(text) ==
    TextTruthy(text) /\ (includes(text, "CITY") \/ includes(text, "HOUSE"))

\* mutant: only the first recipient is sent the message
StartSendToFirst(r, text) ==
    [r EXCEPT !.pc = "send", !.messageText = text,
              !.batch = [u \in Users |->
                            IF u = Head(r.usersToSend) THEN "pending" ELSE "none"]]

\* sendMessageToUsers up to Promise.allSettled: userIds.map starts every
\* callback, each runs to its await of bot.sendMessage
StartSend(r, text) ==
    [r EXCEPT !.pc = "send", !.messageText = text,
              !.batch = [u \in Users |->
                            IF InSeq(u, r.usersToSend) THEN "pending" ELSE "none"]]

\* processIndividualRecord after getOrCreateProcessedMessage returned
AfterMessage(r, text) ==
    IF ~TextTruthy(text)
    THEN EnterRecords([r EXCEPT !.result.skippedRecords = @ + 1], r.k + 1)
    ELSE StartSend(r, text)

\* Promise.allSettled(sendPromises) resolves: every callback has settled
Settled(status) == status \in {"none", "delivered", "sendFailed", "createFailed"}

\* mutant: Promise.all over callbacks that rethrow, the first failure settles it
allOrFirstRejection(batch) ==
    \/ \A u \in Users : Settled(batch[u])
    \/ \E u \in Users : batch[u] \in {"sendFailed", "createFailed"}

allSettled(batch) == \A u \in Users : Settled(batch[u])

\* ------------------------------------------------------- steps of a run
\* a send is issued for a pair whose send already failed in this activation
Reattempts(before, after) ==
    /\ before.pc # "send"
    /\ after.pc = "send"
    /\ \E u \in Users :
          /\ after.batch[u] = "pending"
          /\ << u, after.records[after.k].num >> \in before.failedSends

\* the locals of a callback that returned are gone
Returned(r) == [IdleRun EXCEPT !.pc = "done", !.released = r.released]

\* logFinalStatistics(results); regions and fetchFailed are history: the
\* regions of the run and the indices of those whose fetch threw
Logged(r) ==
    [logged |-> TRUE, results |-> r.results,
     regions |-> [i \in 1..Len(r.regionUserMaps) |-> r.regionUserMaps[i].region],
     fetchFailed |-> r.fetchFailed]

NothingLogged == [logged |-> FALSE, results |-> <<>>, regions |-> <<>>, fetchFailed |-> {}]

\* run s continues as r2; reaching the finally releases the lock
RunGoes(s, r2) ==
    /\ runs' = [runs EXCEPT ![s] = IF r2.pc = "done" THEN Returned(r2) ELSE r2]
    /\ isTaskRunning' = IF r2.released THEN FALSE ELSE isTaskRunning
    /\ reattempted' = (reattempted \/ Reattempts(runs[s], r2))
    /\ statistics' = IF r2.logged THEN Logged(r2) ELSE statistics
    /\ UNCHANGED << fetchCall, aiCall >>
    /\ UNCHANGED botVars

\* mutant: the early return on an empty map leaves without the finally
CollectedReturnsLocked(r, maps) ==
    IF Len(maps) = 0 THEN [r EXCEPT !.pc = "done"]
    ELSE EnterRegion([r EXCEPT !.regionUserMaps = maps], 1)

\* executeMainTask after collectRegionUserMaps returned
Collected(r, maps) ==
    IF Len(maps) = 0 THEN Finally(r)
    ELSE EnterRegion([r EXCEPT !.regionUserMaps = maps], 1)

\* await Configuration.findAll settles
Collect(s) ==
    /\ runs[s].pc = "collect"
    /\ \/ RunGoes(s, Finally(runs[s]))
       \/ \E regionUserMaps \in {collectRegionUserMaps(configs)} :
             RunGoes(s, Collected(runs[s], regionUserMaps))
    /\ UNCHANGED << now, taskStartTime, nextRun, trigs, registry, configs,
                    cache, parsedData, sendOk, deliveredBy >>

\* mutant: processRegion is not awaited, the fetch of the next region is
\* started as soon as the rows of this one have arrived
FetchReturnedStartsNext(r, records) ==
    IF r.ri < Len(r.regionUserMaps)
    THEN [r EXCEPT !.pc = "fetch", !.ri = @ + 1, !.records = records,
                   !.result.totalRecords = Len(records)]
    ELSE [r EXCEPT !.pc = "bulk", !.records = records,
                   !.result.totalRecords = Len(records)]

\* processRegion / processRecordsOptimized after the fetch returned records,
\* up to the bulk query ParsedData.findAll
FetchReturned(r, records) ==
    LET r1 == [r EXCEPT !.records = records, !.result.totalRecords = Len(records)]
    IN IF Len(records) = 0 THEN RegionReturned(r1)
       ELSE IF AllConclusionNumbers(records) = {} THEN RegionReturned(r1)
       ELSE [r1 EXCEPT !.pc = "bulk"]

\* await fetchEgrzDataWithRetry settles: it throws when the attempts are
\* exhausted, or returns the parsed rows
Fetch(s) ==
    /\ runs[s].pc = "fetch"
    /\ \/ RunGoes(s, RegionThrew([runs[s] EXCEPT !.fetchFailed = @ \cup {runs[s].ri}]))
       \/ RunGoes(s, FetchReturned(runs[s], registry[runs[s].regionUserMaps[runs[s].ri].region]))
    /\ UNCHANGED << now, taskStartTime, nextRun, trigs, registry, configs,
                    cache, parsedData, sendOk, deliveredBy >>

\* mutant: the bulk query selects by dataContent only, for the first subscriber
SentCombinationsOfFirst(userIds, numbers) ==
    { p \in Pairs : userIds # <<>> /\ p[1] = Head(userIds) /\ p[2] \in numbers
                       /\ parsedData[p] > 0 }

\* the rows the bulk query returns, as the Set of `${userId}:${dataContent}`
SentCombinations(userIds, numbers) ==
    { p \in Pairs : InSeq(p[1], userIds) /\ p[2] \in numbers /\ parsedData[p] > 0 }

\* await ParsedData.findAll (bulk check) settles
Bulk(s) ==
    /\ runs[s].pc = "bulk"
    /\ \/ RunGoes(s, RegionThrew(runs[s]))
       \/ RunGoes(s, EnterRecords(
              [runs[s] EXCEPT !.sentCombinations =
                  SentCombinations(CurrentUserIds(runs[s]),
                                   AllConclusionNumbers(runs[s].records))], 1))
    /\ UNCHANGED << now, taskStartTime, nextRun, trigs, registry, configs,
                    cache, parsedData, sendOk, deliveredBy >>

CurrentRecord(r) == r.records[r.k]

\* getOrCreateProcessedMessage after a cache miss and processLeadWithAI
\* resolving to text: a cacheable text goes on to ProcessedLead.create
AiReturned(r, text) ==
    IF Cacheable(text)
    THEN [r EXCEPT !.pc = "cacheCreate", !.messageText = text]
    ELSE AfterMessage(r, text)

\* the catch in the record loop of processRecordsOptimized
RecordThrew(r) ==
    EnterRecords([r EXCEPT !.result.errorRecords = @ + 1], r.k + 1)

\* mutant: the text found in the cache is ignored, the LLM is always called
CacheFindAlwaysEnriches(s) ==
    /\ runs[s].pc = "cacheFind"
    /\ \/ RunGoes(s, RecordThrew(runs[s]))
       \/ \E text \in AiOutcomes(CurrentRecord(runs[s])) :
             RunGoes(s, AiReturned(runs[s], text))
    /\ UNCHANGED << now, taskStartTime, nextRun, trigs, registry, configs,
                    cache, parsedData, sendOk, deliveredBy >>

\* await ProcessedLead.findOne settles (on a miss processLeadWithAI is awaited
\* next; it touches no shared state and is resolved in the same step)
CacheFind(s) ==
    /\ runs[s].pc = "cacheFind"
    /\ \/ RunGoes(s, RecordThrew(runs[s]))
       \/ /\ cache[CurrentRecord(runs[s]).num] # NoText
          /\ RunGoes(s, AfterMessage([runs[s] EXCEPT !.cacheHit = TRUE],
                                     cache[CurrentRecord(runs[s]).num]))
       \/ /\ cache[CurrentRecord(runs[s]).num] = NoText
          /\ \E text \in AiOutcomes(CurrentRecord(runs[s])) :
                RunGoes(s, AiReturned(runs[s], text))
    /\ UNCHANGED << now, taskStartTime, nextRun, trigs, registry, configs,
                    cache, parsedData, sendOk, deliveredBy >>

\* mutant: processed_leads without the unique constraint on conclusionNumber
CacheInsertAlways(number) == TRUE

\* ProcessedLead.create: conclusionNumber is unique, the insert of a second
\* row for a number is rejected
CacheInsertAllowed(number) == cache[number] = NoText

\* await ProcessedLead.create settles; a rejection is caught and logged
CacheCreate(s) ==
    /\ runs[s].pc = "cacheCreate"
    /\ \/ /\ CacheInsertAllowed(CurrentRecord(runs[s]).num)
          /\ cache' = [cache EXCEPT ![CurrentRecord(runs[s]).num] = runs[s].messageText]
       \/ UNCHANGED cache
    /\ RunGoes(s, AfterMessage(runs[s], runs[s].messageText))
    /\ UNCHANGED << now, taskStartTime, nextRun, trigs, registry, configs,
                    parsedData, sendOk, deliveredBy >>

\* outcomes of bot.sendMessage: resolved, 403 bot blocked (400 chat not found
\* is handled alike: a warning), any other error
SendOutcomes == {"ok", "blocked", "error"}

\* the callback of user u after its await of bot.sendMessage settled
SendSettles(r, u, outcome) ==
    CASE outcome = "ok" -> [r EXCEPT !.batch[u] = "creating"]
      [] outcome = "blocked" ->
            [r EXCEPT !.batch[u] = "sendFailed",
                      !.failedSends = @ \cup {<< u, CurrentRecord(r).num >>}]
      [] OTHER ->
            [r EXCEPT !.batch[u] = "sendFailed",
                      !.result.errorRecords = @ + 1,
                      !.failedSends = @ \cup {<< u, CurrentRecord(r).num >>}]

\* the send of user u may settle whatever the other callbacks did
SendMaySettle(r, u) == r.batch[u] = "pending"

SendResolve(s, u) ==
    /\ runs[s].pc = "send"
    /\ SendMaySettle(runs[s], u)
    /\ \E outcome \in SendOutcomes :
          /\ RunGoes(s, SendSettles(runs[s], u, outcome))
          /\ sendOk' = IF outcome = "ok"
                       THEN [sendOk EXCEPT ![<< u, CurrentRecord(runs[s]).num >>] = @ + 1]
                       ELSE sendOk
    /\ UNCHANGED << now, taskStartTime, nextRun, trigs, registry, configs,
                    cache, parsedData, deliveredBy >>

\* mutant: the insert into parsed_data is never accepted
CreateResolveAlwaysRejected(s, u) ==
    /\ runs[s].pc = "send"
    /\ runs[s].batch[u] = "creating"
    /\ UNCHANGED << parsedData, deliveredBy >>
    /\ RunGoes(s, [runs[s] EXCEPT !.batch[u] = "createFailed",
                                  !.result.errorRecords = @ + 1])
    /\ UNCHANGED << now, taskStartTime, nextRun, trigs, registry, configs,
                    cache, sendOk >>

\* await ParsedData.create of user u settles; a rejection lands in the same
\* catch as a failed send (no statusCode: counted in errorRecords)
CreateResolve(s, u) ==
    /\ runs[s].pc = "send"
    /\ runs[s].batch[u] = "creating"
    /\ \/ /\ parsedData' = [parsedData EXCEPT ![<< u, CurrentRecord(runs[s]).num >>] = @ + 1]
          /\ deliveredBy' = [deliveredBy EXCEPT ![<< u, CurrentRecord(runs[s]).num >>] = @ \cup {"sched"}]
          /\ RunGoes(s, [runs[s] EXCEPT !.batch[u] = "delivered"])
       \/ /\ UNCHANGED << parsedData, deliveredBy >>
          /\ RunGoes(s, [runs[s] EXCEPT !.batch[u] = "createFailed",
                                        !.result.errorRecords = @ + 1])
    /\ UNCHANGED << now, taskStartTime, nextRun, trigs, registry, configs,
                    cache, sendOk >>

\* sendMessageToUsers returns; processIndividualRecord counts the record
SendReturned(r) ==
    EnterRecords([r EXCEPT !.result.processedRecords = @ + 1, !.batch = NoBatch],
                 r.k + 1)

SendDone(s) ==
    /\ runs[s].pc = "send"
    /\ allSettled(runs[s].batch)
    /\ RunGoes(s, SendReturned(runs[s]))
    /\ UNCHANGED << now, taskStartTime, nextRun, trigs, registry, configs,
                    cache, parsedData, sendOk, deliveredBy >>

\* await sleep(1000) between regions is over
Sleep(s) ==
    /\ runs[s].pc = "sleep"
    /\ RunGoes(s, EnterRegion(runs[s], runs[s].ri + 1))
    /\ UNCHANGED << now, taskStartTime, nextRun, trigs, registry, configs,
                    cache, parsedData, sendOk, deliveredBy >>

RunSlots == DOMAIN runs

RunStep(s) ==
    \/ Collect(s)
    \/ Fetch(s)
    \/ Bulk(s)
    \/ CacheFind(s)
    \/ CacheCreate(s)
    \/ \E u \in Users : SendResolve(s, u)
    \/ \E u \in Users : CreateResolve(s, u)
    \/ SendDone(s)
    \/ Sleep(s)

\* ------------------------------------------------ triggerImmediateParse
\* the locals of one invocation; cacheHit, failedSends, terminal, summary and
\* rejected are history: the text of the current record came from the cache,
\* the failed record sends, the terminal messages whose send was attempted,
\* the wording of the summary, and whether the promise rejected
IdleTrig ==
    [pc |-> "idle", region |-> "", userId |-> 0, records |-> <<>>, k |-> 0,
     sentNumbers |-> {}, messageText |-> NoText, cacheHit |-> FALSE,
     sentMessagesCount |-> 0, skippedRecordsCount |-> 0,
     failedSends |-> {}, terminal |-> 0, summary |-> "none",
     rejected |-> FALSE]

\* mutant: no outer catch, the exception leaves triggerImmediateParse
TrigThrewUncaught(tr) == [tr EXCEPT !.pc = "done", !.rejected = TRUE]

\* the outer catch: the error message is sent to the user
TrigThrew(tr) == [tr EXCEPT !.pc = "errorMsg", !.terminal = @ + 1]

\* the wording of finalMessage
Summary(sentMessagesCount, skippedRecordsCount) ==
    IF sentMessagesCount > 0
    THEN IF skippedRecordsCount > 0 THEN "sentAndSkipped" ELSE "sent"
    ELSE IF skippedRecordsCount > 0 THEN "irrelevant" ELSE "allSentBefore"

\* after the record loop: await bot.sendMessage(userId, finalMessage)
TrigFinal(tr) ==
    [tr EXCEPT !.pc = "finalMsg", !.terminal = @ + 1,
               !.summary = Summary(tr.sentMessagesCount, tr.skippedRecordsCount)]

\* The record loop from row k on, up to the await of
\* getOrCreateProcessedMessage: rows without a number or with the
\* not-required sentinel are counted as skipped, rows already sent continue.
RECURSIVE TrigNextAsync(_, _, _, _)
TrigNextAsync(records, k, sentNumbers, skipped) ==
    IF k > Len(records) THEN [k |-> k, skipped |-> skipped]
    ELSE LET rec == records[k] IN
         IF ~Truthy(rec.num)
         THEN TrigNextAsync(records, k + 1, sentNumbers, skipped + 1)
         ELSE IF IsNotRequired(rec.dev)
         THEN TrigNextAsync(records, k + 1, sentNumbers, skipped + 1)
         ELSE IF rec.num \in sentNumbers
         THEN TrigNextAsync(records, k + 1, sentNumbers, skipped)
         ELSE [k |-> k, skipped |-> skipped]

TrigEnterRecords(tr, k) ==
    LET nx == TrigNextAsync(tr.records, k, tr.sentNumbers, tr.skippedRecordsCount)
        t1 == [tr EXCEPT !.skippedRecordsCount = nx.skipped, !.k = nx.k,
                         !.messageText = NoText, !.cacheHit = FALSE]
    IN IF nx.k > Len(tr.records) THEN TrigFinal(t1)
       ELSE [t1 EXCEPT !.pc = "cacheFind"]

\* if (messageText) { await bot.sendMessage(userId, messageText) ...
TrigAfterMessage(tr, text) ==
    IF TextTruthy(text)
    THEN [tr EXCEPT !.pc = "send", !.messageText = text]
    ELSE TrigEnterRecords(tr, tr.k + 1)

TrigAiReturned(tr, text) ==
    IF Cacheable(text)
    THEN [tr EXCEPT !.pc = "cacheCreate", !.messageText = text]
    ELSE TrigAfterMessage(tr, text)

TrigReattempts(before, after) ==
    /\ before.pc # "send"
    /\ after.pc = "send"
    /\ << after.userId, after.records[after.k].num >> \in before.failedSends

\* the locals of an invocation that returned are gone
TrigReturned(tr) ==
    [IdleTrig EXCEPT !.pc = "done", !.terminal = tr.terminal,
                     !.summary = tr.summary, !.rejected = tr.rejected]

TrigGoes(t, t2) ==
    /\ trigs' = [trigs EXCEPT ![t] = IF t2.pc = "done" THEN TrigReturned(t2) ELSE t2]
    /\ reattempted' = (reattempted \/ TrigReattempts(trigs[t], t2))
    /\ UNCHANGED << fetchCall, aiCall >>
    /\ UNCHANGED botVars

\* mutant: the trigger is gated by the run-lock of the scheduler
TrigStartWhenLockFree(t, region, userId) ==
    /\ ~isTaskRunning
    /\ trigs[t].pc = "idle"
    /\ \A t0 \in 1..(t - 1) : trigs[t0].pc # "idle"
    /\ TrigGoes(t, [IdleTrig EXCEPT !.pc = "fetch", !.region = region, !.userId = userId])
    /\ UNCHANGED << now, isTaskRunning, taskStartTime, runs, nextRun, registry,
                    configs, cache, parsedData, sendOk, deliveredBy, statistics >>

\* handleAddRegion calls triggerImmediateParse(region, chatId); it runs up to
\* its await of fetchEgrzDataWithRetry
TrigStart(t, region, userId) ==
    /\ trigs[t].pc = "idle"
    /\ \A t0 \in 1..(t - 1) : trigs[t0].pc # "idle"
    /\ TrigGoes(t, [IdleTrig EXCEPT !.pc = "fetch", !.region = region, !.userId = userId])
    /\ UNCHANGED << now, isTaskRunning, taskStartTime, runs, nextRun, registry,
                    configs, cache, parsedData, sendOk, deliveredBy, statistics >>

\* after the fetch returned: no rows -> the "no data" message; else the
\* query for the rows already sent to this user
TrigFetchReturned(tr, records) ==
    IF Len(records) = 0
    THEN [tr EXCEPT !.pc = "noDataMsg", !.terminal = @ + 1]
    ELSE [tr EXCEPT !.pc = "bulk", !.records = records]

TrigFetch(t) ==
    /\ trigs[t].pc = "fetch"
    /\ \/ TrigGoes(t, TrigThrew(trigs[t]))
       \/ TrigGoes(t, TrigFetchReturned(trigs[t], registry[trigs[t].region]))
    /\ UNCHANGED << now, isTaskRunning, taskStartTime, runs, nextRun, registry,
                    configs, cache, parsedData, sendOk, deliveredBy, statistics >>

\* new Set(sentRecords.map(r => r.dataContent)) for
\* dataContent in records.map(number).filter(Boolean)
SentNumbers(userId, records) ==
    { n \in Nums : /\ \E i \in 1..Len(records) : records[i].num = n /\ Truthy(n)
                   /\ parsedData[<< userId, n >>] > 0 }

TrigBulk(t) ==
    /\ trigs[t].pc = "bulk"
    /\ \/ TrigGoes(t, TrigThrew(trigs[t]))
       \/ TrigGoes(t, TrigEnterRecords(
              [trigs[t] EXCEPT !.sentNumbers = SentNumbers(trigs[t].userId, trigs[t].records)], 1))
    /\ UNCHANGED << now, isTaskRunning, taskStartTime, runs, nextRun, registry,
                    configs, cache, parsedData, sendOk, deliveredBy, statistics >>

\* getOrCreateProcessedMessage is awaited outside the inner try: a rejected
\* findOne lands in the outer catch
TrigCacheFind(t) ==
    /\ trigs[t].pc = "cacheFind"
    /\ \/ TrigGoes(t, TrigThrew(trigs[t]))
       \/ /\ cache[CurrentRecord(trigs[t]).num] # NoText
          /\ TrigGoes(t, TrigAfterMessage([trigs[t] EXCEPT !.cacheHit = TRUE],
                                          cache[CurrentRecord(trigs[t]).num]))
       \/ /\ cache[CurrentRecord(trigs[t]).num] = NoText
          /\ \E text \in AiOutcomes(CurrentRecord(trigs[t])) :
                TrigGoes(t, TrigAiReturned(trigs[t], text))
    /\ UNCHANGED << now, isTaskRunning, taskStartTime, runs, nextRun, registry,
                    configs, cache, parsedData, sendOk, deliveredBy, statistics >>

TrigCacheCreate(t) ==
    /\ trigs[t].pc = "cacheCreate"
    /\ \/ /\ CacheInsertAllowed(CurrentRecord(trigs[t]).num)
          /\ cache' = [cache EXCEPT ![CurrentRecord(trigs[t]).num] = trigs[t].messageText]
       \/ UNCHANGED cache
    /\ TrigGoes(t, TrigAfterMessage(trigs[t], trigs[t].messageText))
    /\ UNCHANGED << now, isTaskRunning, taskStartTime, runs, nextRun, registry,
                    configs, parsedData, sendOk, deliveredBy, statistics >>

TrigPair(tr) == << tr.userId, CurrentRecord(tr).num >>

\* await bot.sendMessage(userId, messageText) settles; a rejection is caught
\* by the inner catch and the loop goes on
TrigSend(t) ==
    /\ trigs[t].pc = "send"
    /\ \/ /\ sendOk' = [sendOk EXCEPT ![TrigPair(trigs[t])] = @ + 1]
          /\ TrigGoes(t, [trigs[t] EXCEPT !.pc = "create"])
       \/ /\ UNCHANGED sendOk
          /\ TrigGoes(t, TrigEnterRecords(
                 [trigs[t] EXCEPT !.failedSends = @ \cup {TrigPair(trigs[t])}],
                 trigs[t].k + 1))
    /\ UNCHANGED << now, isTaskRunning, taskStartTime, runs, nextRun, registry,
                    configs, cache, parsedData, deliveredBy, statistics >>

\* await ParsedData.create settles; sentMessagesCount++ follows the insert
TrigCreate(t) ==
    /\ trigs[t].pc = "create"
    /\ \/ /\ parsedData' = [parsedData EXCEPT ![TrigPair(trigs[t])] = @ + 1]
          /\ deliveredBy' = [deliveredBy EXCEPT ![TrigPair(trigs[t])] = @ \cup {"trigger"}]
          /\ TrigGoes(t, TrigEnterRecords(
                 [trigs[t] EXCEPT !.sentMessagesCount = @ + 1], trigs[t].k + 1))
       \/ /\ UNCHANGED << parsedData, deliveredBy >>
          /\ TrigGoes(t, TrigEnterRecords(trigs[t], trigs[t].k + 1))
    /\ UNCHANGED << now, isTaskRunning, taskStartTime, runs, nextRun, registry,
                    configs, cache, sendOk, statistics >>

\* the send of the "no data" message or of the summary settles: the function
\* returns, or the rejection lands in the outer catch
TrigTerminalMsg(t) ==
    /\ trigs[t].pc \in {"noDataMsg", "finalMsg"}
    /\ \/ TrigGoes(t, [trigs[t] EXCEPT !.pc = "done"])
       \/ TrigGoes(t, TrigThrew(trigs[t]))
    /\ UNCHANGED << now, isTaskRunning, taskStartTime, runs, nextRun, registry,
                    configs, cache, parsedData, sendOk, deliveredBy, statistics >>

\* the send of the error message in the outer catch settles: a rejection
\* there rejects the promise of triggerImmediateParse
TrigErrorMsg(t) ==
    /\ trigs[t].pc = "errorMsg"
    /\ \/ TrigGoes(t, [trigs[t] EXCEPT !.pc = "done"])
       \/ TrigGoes(t, [trigs[t] EXCEPT !.pc = "done", !.rejected = TRUE])
    /\ UNCHANGED << now, isTaskRunning, taskStartTime, runs, nextRun, registry,
                    configs, cache, parsedData, sendOk, deliveredBy, statistics >>

TrigSlots == DOMAIN trigs

\* an invocation that was called goes on from an await that settled
TrigRuns(t) ==
    \/ TrigFetch(t)
    \/ TrigBulk(t)
    \/ TrigCacheFind(t)
    \/ TrigCacheCreate(t)
    \/ TrigSend(t)
    \/ TrigCreate(t)
    \/ TrigTerminalMsg(t)
    \/ TrigErrorMsg(t)

TrigStep(t) ==
    \/ \E region \in Regions, userId \in Users : TrigStart(t, region, userId)
    \/ TrigRuns(t)

\* ------------------------------------------------------------------- bot.ts
\* msg.from?.username: undefined, or a name
NoUsername == ""
Alice == "alice"
Bob == "bob"

\* userId of a users row that is not activated yet (null)
NoChat == 0

\* rows a model run lets the users table grow to
MaxUserRows == 2

\* REGIONS[code] as the stored value `${regionName} - ${code}`; "" when
\* REGIONS has no such code
RegionValue(code) ==
    CASE code = "35" -> RegionA
      [] code = "78" -> RegionB
      [] OTHER -> ""

\* region.split(' - ')[1]
CodeOf(region) ==
    CASE region = RegionA -> "35"
      [] region = RegionB -> "78"
      [] OTHER -> ""

\* (msg.text || '').trim(): '/start', one of COMMAND_BUTTONS, or any other
\* text, held as its comma-separated items, trimmed, the empty ones dropped
StartText == [kind |-> "start", items |-> <<>>]
ButtonText(b) == [kind |-> "button", items |-> <<b>>]
ItemsText(xs) == [kind |-> "items", items |-> xs]

\* COMMAND_BUTTONS.has(text) || text.startsWith('/')
IsCommand(text) == text.kind \in {"button", "start"}

Message(chatId, username, text) ==
    [chatId |-> chatId, username |-> username, text |-> text]

\* one activation of the 'message' listener (replies, threw: history; at:
\* Date.now() when its User.destroy settled, history)
IdleHandler ==
    [pc |-> "idle", chatId |-> 0, username |-> NoUsername,
     text |-> ItemsText(<<>>), access |-> "", action |-> "none", row |-> 0,
     config |-> <<>>, added |-> <<>>, deleted |-> <<>>, ti |-> 0, trig |-> 0,
     notify |-> <<>>, replies |-> <<>>, threw |-> FALSE, at |-> 0]

isAdmin(userId) == userId \in ADMIN_TELEGRAM_IDS

\* User.findOne({ where }): the first matching row, 0 for null
FirstOf(S) == IF S = {} THEN 0 ELSE CHOOSE i \in S : \A j \in S : i <= j
FindByUsername(table, username) ==
    FirstOf({ i \in 1..Len(table) : table[i].live /\ table[i].username = username })
FindByUserId(table, userId) ==
    FirstOf({ i \in 1..Len(table) : table[i].live /\ table[i].userId = userId })

\* getUserConfig: the regions array of the chat's configuration, [] when
\* there is no row, the JSON does not parse or regions is not an array
getUserConfig(table, chatId) ==
    LET S == { i \in 1..Len(table) : table[i].userId = chatId }
    IN IF S = {} THEN <<>>
       ELSE LET d == table[FirstOf(S)].configData
            IN IF d.ok /\ d.hasRegions THEN d.regions ELSE <<>>

\* saveUserConfig: Configuration.upsert on the unique userId
saveUserConfig(table, chatId, regions) ==
    IF \E i \in 1..Len(table) : table[i].userId = chatId
    THEN [i \in 1..Len(table) |->
             IF table[i].userId = chatId
             THEN [userId |-> chatId, configData |-> Cfg(regions)]
             ELSE table[i]]
    ELSE Append(table, [userId |-> chatId, configData |-> Cfg(regions)])

\* the loop of handleAddRegion over the codes: config.regions and
\* addedRegions after it
RECURSIVE AddCodes(_, _, _)
AddCodes(codes, regions, added) ==
    IF codes = <<>> THEN [regions |-> regions, added |-> added]
    ELSE LET v == RegionValue(Head(codes))
         IN IF v = "" \/ InSeq(v, regions)
            THEN AddCodes(Tail(codes), regions, added)
            ELSE AddCodes(Tail(codes), Append(regions, v), Append(added, v))

\* the filter of handleDeleteRegionsByInput
KeptRegions(regions, codes) ==
    SelectSeq(regions, LAMBDA r : ~InSeq(CodeOf(r), codes))
DeletedRegions(regions, codes) ==
    SelectSeq(regions, LAMBDA r : InSeq(CodeOf(r), codes))

\* safeSendMessage never throws; what was sent is kept as history
Reply(h, kind) == [h EXCEPT !.replies = Append(@, kind)]
Ends(h) == [h EXCEPT !.pc = "done"]
\* a rejection outside the try of the listener leaves it unhandled
Unhandled(h) == [h EXCEPT !.pc = "done", !.threw = TRUE]
\* the catch of the listener
Caught(h) == Ends(Reply(h, "internalError"))

\* a continuation of the listener: the activation and the userAction map
Out(h, ua) == [h |-> h, ua |-> ua]

\* step 4 of the listener: the command buttons
Command(h, ua) ==
    CASE h.text = ButtonText("addRegion") ->
            Out(Ends(Reply(h, "enterCodes")), [ua EXCEPT ![h.chatId] = "add_region"])
      [] h.text = ButtonText("delRegion") -> Out([h EXCEPT !.pc = "promptRead"], ua)
      [] h.text = ButtonText("myRegions") -> Out([h EXCEPT !.pc = "showRead"], ua)
      [] h.text = ButtonText("addUser") ->
            IF isAdmin(h.chatId)
            THEN Out(Ends(Reply(h, "enterUsername")),
                     [ua EXCEPT ![h.chatId] = "awaiting_username"])
            ELSE Out(Ends(h), ua)
      [] h.text = ButtonText("delUser") ->
            IF isAdmin(h.chatId)
            THEN Out([h EXCEPT !.pc = "promptUsers"], ua)
            ELSE Out(Ends(h), ua)
      [] OTHER -> Out(Ends(h), ua)

\* step 3 of the listener: a pending userAction is cancelled by a command or
\* consumed by the text, up to the first await of the function it calls
Dispatch(h, ua) ==
    IF ua[h.chatId] # "none"
    THEN LET cleared == [ua EXCEPT ![h.chatId] = "none"]
             h1 == [h EXCEPT !.action = ua[h.chatId]]
         IN IF IsCommand(h.text) THEN Command(h, cleared)
            ELSE CASE ua[h.chatId] = "add_region" ->
                        IF h.text.items = <<>>
                        THEN Out(Ends(Reply(h1, "noCodes")), cleared)
                        ELSE Out([h1 EXCEPT !.pc = "addRead"], cleared)
                   [] ua[h.chatId] = "awaiting_username" ->
                        IF h.text.items = <<>>
                        THEN Out(Ends(Reply(h1, "emptyName")),
                                 [cleared EXCEPT ![h.chatId] = "awaiting_username"])
                        ELSE Out([h1 EXCEPT !.pc = "findOrCreate"], cleared)
                   [] ua[h.chatId] = "awaiting_region_deletion" ->
                        IF h.text.items = <<>>
                        THEN Out(Ends(Reply(h1, "noCodes")), cleared)
                        ELSE Out([h1 EXCEPT !.pc = "delRead"], cleared)
                   [] OTHER ->
                        IF h.text.items = <<>>
                        THEN Out(Ends(Reply(h1, "noNames")), cleared)
                        ELSE Out([h1 EXCEPT !.pc = "notifyFind"], cleared)
    ELSE IF h.text.items = <<>> THEN Out(Ends(h), ua)
    ELSE Command(h, ua)

\* mutant: the gatekeeper lets every tier through
AfterAccessOpen(h, access, ua) ==
    IF h.text.kind = "start"
    THEN Out(Ends(Reply([h EXCEPT !.access = access], "noAccess")), ua)
    ELSE Dispatch([h EXCEPT !.access = access], ua)

\* hasAccess has answered: the reply of the /start branch, or the gatekeeper
AfterAccess(h, access, ua) ==
    LET h1 == [h EXCEPT !.access = access]
    IN IF h.text.kind = "start"
       THEN Out(Ends(Reply(h1, IF access \in {"admin", "activated"}
                               THEN "alreadyActivated" ELSE "noAccess")), ua)
       ELSE IF access \notin {"admin", "activated"}
            THEN Out(Ends(Reply(h1, "pressStart")), ua)
            ELSE Dispatch(h1, ua)

\* hasAccess up to its first await
HasAccess(h, ua) ==
    IF isAdmin(h.chatId) THEN AfterAccess(h, "admin", ua)
    ELSE Out([h EXCEPT !.pc = "isActivated"], ua)

\* the listener up to its first await
Arrived(msg, ua) ==
    LET h == [IdleHandler EXCEPT !.chatId = msg.chatId, !.username = msg.username,
                                 !.text = msg.text]
    IN IF msg.text.kind = "start" /\ msg.username # NoUsername
       THEN Out([h EXCEPT !.pc = "startFind"], ua)
       ELSE HasAccess(h, ua)

\* what the listener leaves alone unless stated
schedVars == << now, isTaskRunning, taskStartTime, runs, nextRun, registry,
                cache, parsedData, sendOk, deliveredBy, reattempted,
                statistics, fetchCall, aiCall >>

HandlerGoes(i, out) ==
    /\ handlers' = [handlers EXCEPT ![i] = out.h]
    /\ userAction' = out.ua
    /\ UNCHANGED schedVars

\* polling hands the next update to the listener
MessageArrives ==
    /\ inbox # <<>>
    /\ \E i \in 1..Len(handlers) :
          /\ handlers[i].pc = "idle"
          /\ \A j \in 1..(i - 1) : handlers[j].pc # "idle"
          /\ HandlerGoes(i, Arrived(Head(inbox), userAction))
    /\ inbox' = Tail(inbox)
    /\ UNCHANGED << users, configs, trigs >>

\* /start: await User.findOne({ where: { username } }) settles
StartFind(i) ==
    /\ handlers[i].pc = "startFind"
    /\ \/ HandlerGoes(i, Out(Unhandled(handlers[i]), userAction))
       \/ LET row == FindByUsername(users, handlers[i].username)
          IN IF row # 0 /\ users[row].userId = NoChat
             THEN HandlerGoes(i, Out([handlers[i] EXCEPT !.pc = "startSave", !.row = row],
                                     userAction))
             ELSE HandlerGoes(i, HasAccess(handlers[i], userAction))
    /\ UNCHANGED << users, configs, trigs, inbox >>

\* /start: userInDb.userId = chatId; await userInDb.save() settles. The
\* UPDATE goes by the primary key; it fails on the unique userId when
\* another row holds the chat, and touches nothing when the row is gone.
StartSave(i) ==
    /\ handlers[i].pc = "startSave"
    /\ LET h == handlers[i]
           taken == \E j \in 1..Len(users) :
                       j # h.row /\ users[j].live /\ users[j].userId = h.chatId
       IN \/ /\ ~taken
             /\ users' = IF users[h.row].live
                         THEN [users EXCEPT ![h.row].userId = h.chatId]
                         ELSE users
             /\ HandlerGoes(i, Out(Ends(Reply(h, "welcome")), userAction))
          \/ /\ UNCHANGED users
             /\ HandlerGoes(i, Out(Unhandled(h), userAction))
    /\ UNCHANGED << configs, trigs, inbox >>

\* isActivated: await User.findOne({ where: { userId } }) settles
IsActivated(i) ==
    /\ handlers[i].pc = "isActivated"
    /\ LET h == handlers[i]
       IN \/ HandlerGoes(i, Out(Unhandled(h), userAction))
          \/ IF FindByUserId(users, h.chatId) # 0
             THEN HandlerGoes(i, AfterAccess(h, "activated", userAction))
             ELSE IF h.username # NoUsername
                  THEN HandlerGoes(i, Out([h EXCEPT !.pc = "isRegistered"], userAction))
                  ELSE HandlerGoes(i, AfterAccess(h, "none", userAction))
    /\ UNCHANGED << users, configs, trigs, inbox >>

\* hasAccess: await User.findOne({ where: { username } }) settles
IsRegistered(i) ==
    /\ handlers[i].pc = "isRegistered"
    /\ LET h == handlers[i]
       IN \/ HandlerGoes(i, Out(Unhandled(h), userAction))
          \/ HandlerGoes(i, AfterAccess(h,
                 IF FindByUsername(users, h.username) # 0 THEN "registered" ELSE "none",
                 userAction))
    /\ UNCHANGED << users, configs, trigs, inbox >>

\* promptForRegionDeletion: await getUserConfig settles
PromptRead(i) ==
    /\ handlers[i].pc = "promptRead"
    /\ LET h == handlers[i]
       IN \/ HandlerGoes(i, Out(Caught(h), userAction))
          \/ IF getUserConfig(configs, h.chatId) = <<>>
             THEN HandlerGoes(i, Out(Ends(Reply(h, "nothingToDelete")), userAction))
             ELSE HandlerGoes(i, Out(Ends(Reply(h, "enterCodesToDelete")),
                      [userAction EXCEPT ![h.chatId] = "awaiting_region_deletion"]))
    /\ UNCHANGED << users, configs, trigs, inbox >>

\* showMyRegions: await getUserConfig settles
ShowRead(i) ==
    /\ handlers[i].pc = "showRead"
    /\ \/ HandlerGoes(i, Out(Caught(handlers[i]), userAction))
       \/ HandlerGoes(i, Out(Ends(Reply(handlers[i], "myRegions")), userAction))
    /\ UNCHANGED << users, configs, trigs, inbox >>

\* promptForUserDeletion: await User.findAll() settles
PromptUsers(i) ==
    /\ handlers[i].pc = "promptUsers"
    /\ LET h == handlers[i]
       IN \/ HandlerGoes(i, Out(Caught(h), userAction))
          \/ IF \A j \in 1..Len(users) : ~users[j].live
             THEN HandlerGoes(i, Out(Ends(Reply(h, "noUsers")), userAction))
             ELSE HandlerGoes(i, Out(Ends(Reply(h, "enterNamesToDelete")),
                      [userAction EXCEPT ![h.chatId] = "awaiting_user_deletion"]))
    /\ UNCHANGED << users, configs, trigs, inbox >>

\* handleAddRegion: await getUserConfig settles; the loop over the codes
AddRead(i) ==
    /\ handlers[i].pc = "addRead"
    /\ LET h == handlers[i]
           r == AddCodes(h.text.items, getUserConfig(configs, h.chatId), <<>>)
       IN \/ HandlerGoes(i, Out(Caught(h), userAction))
          \/ IF r.added # <<>>
             THEN HandlerGoes(i, Out([h EXCEPT !.pc = "addSave", !.config = r.regions,
                                               !.added = r.added], userAction))
             ELSE HandlerGoes(i, Out(Ends(Reply(h, "notAdded")), userAction))
    /\ UNCHANGED << users, configs, trigs, inbox >>

\* handleAddRegion: await saveUserConfig settles; the two messages follow
\* and the loop of immediate searches begins
AddSave(i) ==
    /\ handlers[i].pc = "addSave"
    /\ LET h == handlers[i]
       IN \/ /\ UNCHANGED configs
             /\ HandlerGoes(i, Out(Caught(h), userAction))
          \/ /\ configs' = saveUserConfig(configs, h.chatId, h.config)
             /\ HandlerGoes(i, Out([Reply(Reply(h, "added"), "searching")
                                       EXCEPT !.pc = "trigger", !.ti = 1], userAction))
    /\ UNCHANGED << users, trigs, inbox >>

\* handleAddRegion: triggerImmediateParse(region, chatId) is called and runs
\* up to its await of fetchEgrzDataWithRetry
TriggerCall(i) ==
    /\ handlers[i].pc = "trigger"
    /\ \E t \in 1..Len(trigs) :
          /\ trigs[t].pc = "idle"
          /\ \A t0 \in 1..(t - 1) : trigs[t0].pc # "idle"
          /\ trigs' = [trigs EXCEPT ![t] =
                          [IdleTrig EXCEPT !.pc = "fetch",
                                           !.region = handlers[i].added[handlers[i].ti],
                                           !.userId = handlers[i].chatId]]
          /\ HandlerGoes(i, Out([handlers[i] EXCEPT !.pc = "awaitTrigger", !.trig = t],
                                userAction))
    /\ UNCHANGED << users, configs, inbox >>

\* handleAddRegion: await triggerImmediateParse settles; a rejection lands
\* in the catch of the listener
TriggerReturns(i) ==
    /\ handlers[i].pc = "awaitTrigger"
    /\ trigs[handlers[i].trig].pc = "done"
    /\ LET h == handlers[i]
       IN IF trigs[h.trig].rejected
          THEN HandlerGoes(i, Out(Caught(h), userAction))
          ELSE IF h.ti < Len(h.added)
               THEN HandlerGoes(i, Out([h EXCEPT !.pc = "trigger", !.ti = @ + 1],
                                       userAction))
               ELSE HandlerGoes(i, Out(Ends(h), userAction))
    /\ UNCHANGED << users, configs, trigs, inbox >>

\* handleDeleteRegionsByInput: await getUserConfig settles; the filter
DelRead(i) ==
    /\ handlers[i].pc = "delRead"
    /\ LET h == handlers[i]
           regions == getUserConfig(configs, h.chatId)
           deleted == DeletedRegions(regions, h.text.items)
       IN \/ HandlerGoes(i, Out(Caught(h), userAction))
          \/ IF deleted # <<>>
             THEN HandlerGoes(i, Out([h EXCEPT !.pc = "delSave",
                                               !.config = KeptRegions(regions, h.text.items),
                                               !.deleted = deleted], userAction))
             ELSE HandlerGoes(i, Out(Ends(Reply(h, "notFound")), userAction))
    /\ UNCHANGED << users, configs, trigs, inbox >>

\* handleDeleteRegionsByInput: await saveUserConfig settles
DelSave(i) ==
    /\ handlers[i].pc = "delSave"
    /\ LET h == handlers[i]
       IN \/ /\ UNCHANGED configs
             /\ HandlerGoes(i, Out(Caught(h), userAction))
          \/ /\ configs' = saveUserConfig(configs, h.chatId, h.config)
             /\ HandlerGoes(i, Out(Ends(Reply(h, "deleted")), userAction))
    /\ UNCHANGED << users, trigs, inbox >>

\* handleAddUsername: await User.findOrCreate settles (text.replace('@', ''))
FindOrCreate(i) ==
    /\ handlers[i].pc = "findOrCreate"
    /\ LET h == handlers[i]
           name == h.text.items[1]
       IN \/ /\ UNCHANGED users
             /\ HandlerGoes(i, Out(Caught(h), userAction))
          \/ /\ FindByUsername(users, name) # 0
             /\ UNCHANGED users
             /\ HandlerGoes(i, Out(Ends(Reply(h, "alreadyListed")), userAction))
          \/ /\ FindByUsername(users, name) = 0
             /\ Len(users) < MaxUserRows
             /\ users' = Append(users, [username |-> name, userId |-> NoChat,
                                        live |-> TRUE])
             /\ HandlerGoes(i, Out(Ends(Reply(h, "whitelisted")), userAction))
    /\ UNCHANGED << configs, trigs, inbox >>

\* handleDeleteUsersByInput: await User.findAll (the activated users among
\* the names) settles
NotifyFind(i) ==
    /\ handlers[i].pc = "notifyFind"
    /\ LET h == handlers[i]
           found == SelectSeq(users, LAMBDA row : /\ row.live
                                                  /\ InSeq(row.username, h.text.items)
                                                  /\ row.userId # NoChat)
       IN \/ HandlerGoes(i, Out(Caught(h), userAction))
          \/ HandlerGoes(i, Out([h EXCEPT !.pc = "destroy",
                                          !.notify = [j \in 1..Len(found) |-> found[j].userId]],
                                userAction))
    /\ UNCHANGED << users, configs, trigs, inbox >>

\* handleDeleteUsersByInput: await User.destroy settles; the admin and the
\* users found before are told
Destroy(i) ==
    /\ handlers[i].pc = "destroy"
    /\ LET h == handlers[i]
           hit == { j \in 1..Len(users) :
                       users[j].live /\ InSeq(users[j].username, h.text.items) }
       IN \/ /\ UNCHANGED users
             /\ HandlerGoes(i, Out(Caught(h), userAction))
          \/ /\ users' = [j \in 1..Len(users) |->
                             IF j \in hit THEN [users[j] EXCEPT !.live = FALSE]
                             ELSE users[j]]
             /\ HandlerGoes(i, Out(Ends(Reply([h EXCEPT !.at = now],
                                              IF hit # {} THEN "usersDeleted"
                                              ELSE "usersNotFound")), userAction))
    /\ UNCHANGED << configs, trigs, inbox >>

HandlerStep(i) ==
    \/ StartFind(i)
    \/ StartSave(i)
    \/ IsActivated(i)
    \/ IsRegistered(i)
    \/ PromptRead(i)
    \/ ShowRead(i)
    \/ PromptUsers(i)
    \/ AddRead(i)
    \/ AddSave(i)
    \/ TriggerCall(i)
    \/ TriggerReturns(i)
    \/ DelRead(i)
    \/ DelSave(i)
    \/ FindOrCreate(i)
    \/ NotifyFind(i)
    \/ Destroy(i)

\* ------------------------------------------------ fetchEgrzDataWithRetry
\* SCHEDULER_CONFIG
MAX_RETRIES == 3
RETRY_DELAY == 5000
HTTP_TIMEOUT == 30 * 1000

\* the variables of the pipeline, which a call followed on its own leaves alone
pipelineVars == << now, isTaskRunning, taskStartTime, runs, nextRun, trigs,
                   registry, configs, cache, parsedData, sendOk, deliveredBy,
                   reattempted, statistics,
                   users, userAction, handlers, inbox >>

\* error.code values the catch treats as a network error
NetworkCodes == {"ECONNRESET", "ETIMEDOUT", "ECONNABORTED"}

\* how one attempt ends: rows parsed, nothing left after cleanCsvData, a
\* network error, an HTTP error status (axios code ERR_BAD_RESPONSE), or
\* parse() throwing on a malformed payload
AttemptOutcomes ==
    {"rows", "empty"} \cup NetworkCodes \cup {"ERR_BAD_RESPONSE", "CSV_PARSE"}

\* milliseconds an attempt takes: the axios timeout for ECONNABORTED
Latency(outcome) == IF outcome = "ECONNABORTED" THEN HTTP_TIMEOUT ELSE 200

\* the locals of one call; clock is the time since the call began, requests
\* the axios.get calls issued (history)
IdleFetch ==
    [pc |-> "idle", region |-> "", attempt |-> 0, clock |-> 0,
     requests |-> <<>>, returned |-> <<>>, error |-> "none"]

\* the head of the for loop at `attempt`: the next axios.get is issued, or
\* the loop is over and the function returns []
IssueRequest(c, attempt) ==
    IF attempt <= MAX_RETRIES
    THEN [c EXCEPT !.pc = "request", !.attempt = attempt,
                   !.requests = Append(@, [issuedAt |-> c.clock,
                                           outcome |-> "pending",
                                           settledAt |-> c.clock])]
    ELSE [c EXCEPT !.pc = "returned", !.returned = <<>>]

\* mutant: the error of the last attempt is swallowed like the others
AttemptFailedNeverThrows(c, code) ==
    IF code \in NetworkCodes /\ c.attempt # MAX_RETRIES
    THEN [c EXCEPT !.pc = "sleep"]
    ELSE IssueRequest(c, c.attempt + 1)

\* the catch: a network error before the last attempt sleeps and continues;
\* the last attempt rethrows; any other error before the last attempt falls
\* out of the catch and the loop goes on at once
AttemptFailed(c, code) ==
    IF code \in NetworkCodes /\ c.attempt # MAX_RETRIES
    THEN [c EXCEPT !.pc = "sleep"]
    ELSE IF c.attempt = MAX_RETRIES
         THEN [c EXCEPT !.pc = "threw", !.error = code]
         ELSE IssueRequest(c, c.attempt + 1)

\* the try block after axios.get settled with outcome
AttemptSettled(c, outcome, rows) ==
    CASE outcome = "rows" -> [c EXCEPT !.pc = "returned", !.returned = rows]
      [] outcome = "empty" -> [c EXCEPT !.pc = "returned", !.returned = <<>>]
      [] OTHER -> AttemptFailed(c, outcome)

\* fetchEgrzDataWithRetry(region, todayMsk) is called
EgrzCallStart(region) ==
    /\ fetchCall.pc = "idle"
    /\ fetchCall' = IssueRequest([IdleFetch EXCEPT !.region = region], 1)
    /\ UNCHANGED pipelineVars
    /\ UNCHANGED aiCall

\* await axios.get settles
EgrzRequestSettles ==
    /\ fetchCall.pc = "request"
    /\ \E outcome \in AttemptOutcomes :
          fetchCall' =
              AttemptSettled(
                  [fetchCall EXCEPT
                      !.clock = @ + Latency(outcome),
                      !.requests[fetchCall.attempt].outcome = outcome,
                      !.requests[fetchCall.attempt].settledAt =
                          fetchCall.clock + Latency(outcome)],
                  outcome, registry[fetchCall.region])
    /\ UNCHANGED pipelineVars
    /\ UNCHANGED aiCall

\* await sleep(RETRY_DELAY) is over: continue
EgrzSleepOver ==
    /\ fetchCall.pc = "sleep"
    /\ fetchCall' = IssueRequest([fetchCall EXCEPT !.clock = @ + RETRY_DELAY],
                                 fetchCall.attempt + 1)
    /\ UNCHANGED pipelineVars
    /\ UNCHANGED aiCall

\* ------------------------------------------------------ processLeadWithAI
\* AI_CONFIG
AI_MAX_RETRIES == 3
AI_RETRY_DELAY == 2000

\* 'Nomer zaklyucheniya ekspertizy:', the label a report must carry
LABEL ==
    <<"N","o","m","e","r"," ","z","a","k","l","y","u","c","h","e","n","i",
      "y","a"," ","e","k","s","p","e","r","t","i","z","y",":">>

\* requiredElements: the label and the three emoji (tokens CITY, HOUSE,
\* FACTORY)
requiredElements == << LABEL, <<"CITY">>, <<"HOUSE">>, <<"FACTORY">> >>

\* invalidPhrases, as the source spells them: 'ya ne mogu', 'izvinite',
\* 'ne udalos', 'oshibka', 'kak AI', 'kak iskusstvennyi intellekt'
PhraseCannot == <<"y","a"," ","n","e"," ","m","o","g","u">>
PhraseSorry == <<"i","z","v","i","n","i","t","e">>
PhraseFailed == <<"n","e"," ","u","d","a","l","o","s">>
PhraseError == <<"o","s","h","i","b","k","a">>
PhraseAsAI == <<"k","a","k"," ","A","I">>
PhraseAsArtificial ==
    <<"k","a","k"," ","i","s","k","u","s","s","t","v","e","n","n","y","i",
      " ","i","n","t","e","l","l","e","k","t">>

invalidPhrases ==
    << PhraseCannot, PhraseSorry, PhraseFailed, PhraseError, PhraseAsAI,
       PhraseAsArtificial >>

\* response.length counts UTF-16 code units: three for the city emoji with
\* its variation selector, two for the house and the factory emoji
Units(ch) ==
    CASE ch = "CITY" -> 3
      [] ch \in {"HOUSE", "FACTORY"} -> 2
      [] OTHER -> 1

RECURSIVE length(_)
length(s) == IF s = <<>> THEN 0 ELSE Units(Head(s)) + length(Tail(s))

\* String.prototype.includes on strings
StrIncludes(s, sub) ==
    \E i \in 0..(Len(s) - Len(sub)) : SubSeq(s, i + 1, i + Len(sub)) = sub

MIN_RESPONSE_LENGTH == 50

\* validateAIResponse: long enough, every required element present, and no
\* phrase of the list found in the lower-cased response
validateAIResponse(response) ==
    /\ Truthy(response)
    /\ length(response) >= MIN_RESPONSE_LENGTH
    /\ \A e \in 1..Len(requiredElements) : StrIncludes(response, requiredElements[e])
    /\ \A p \in 1..Len(invalidPhrases) :
          ~StrIncludes(toLowerCase(response), invalidPhrases[p])

\* String.prototype.toUpperCase (to write an answer in another letter case)
UpperOf(c) ==
    IF \E i \in 1..Len(LOWER) : LOWER[i] = c
    THEN UPPER[CHOOSE i \in 1..Len(LOWER) : LOWER[i] = c]
    ELSE c

toUpperCase(s) == [i \in 1..Len(s) |-> UpperOf(s[i])]

\* answers of the model: the sections of a report
Intro == <<" ","X"," ">>
WhoPrepared == <<"CITY"," ","O","O","O"," ","P"," ">>
Developer == <<"HOUSE"," ","O","O","O"," ","R"," ">>
ObjectPart == <<"FACTORY"," ","d","o","m">>
Padding(n) == [i \in 1..n |-> "x"]

WellFormed == LABEL \o Intro \o WhoPrepared \o Developer \o ObjectPart
WellFormedToo == WellFormed \o <<" ","1">>
Exactly50 == LABEL \o <<"CITY","HOUSE","FACTORY">> \o Padding(12)
Short49 == LABEL \o <<"CITY","HOUSE","FACTORY">> \o Padding(11)
NoLabel == Intro \o WhoPrepared \o Developer \o ObjectPart \o Padding(30)
NoCity == LABEL \o Intro \o Developer \o ObjectPart \o Padding(10)
NoHouse == LABEL \o Intro \o WhoPrepared \o ObjectPart \o Padding(10)
NoFactory == LABEL \o Intro \o WhoPrepared \o Developer \o Padding(10)

\* a well-formed report followed by a phrase
WithPhrase(phrase) == WellFormed \o <<" ">> \o phrase

\* message.content of a completion: reports that are complete, too short or
\* lack an element, reports carrying a phrase of the list as listed, in
\* upper case and in lower case, an empty content and one of blanks only
LlmContents ==
    {WellFormed, WellFormedToo, Exactly50, Short49, NoLabel, NoCity, NoHouse,
     NoFactory, <<>>, <<" "," ">>}
    \cup { WithPhrase(invalidPhrases[p]) : p \in 1..Len(invalidPhrases) }
    \cup { WithPhrase(toUpperCase(invalidPhrases[p])) : p \in 1..Len(invalidPhrases) }
    \cup { WithPhrase(toLowerCase(invalidPhrases[p])) : p \in 1..Len(invalidPhrases) }

\* what a rejected completion request carries: error.code insufficient_quota
\* or rate_limit_exceeded, an AbortError / ECONNABORTED, the Error of the
\* timeout race of callOpenAIWithTimeout, any other error
LlmErrors ==
    {"insufficient_quota", "rate_limit_exceeded", "AbortError",
     "OpenAI request timeout", "other"}

\* the template text: date, region, conclusion number and developer field
fallbackText(leadData, region) ==
    <<"Novyi lid za ", "DATE", " (region: ", region, ") Nomer zaklyucheniya: ">>
    \o leadData.num \o <<" Zastroishchik: ">> \o leadData.dev

\* the locals of one call; requests (what each completion request ended
\* with), result, valid and delay are history
IdleAi ==
    [pc |-> "idle", leadData |-> Rec(<<>>, <<>>), region |-> "",
     apiKey |-> FALSE, attempt |-> 0, requests |-> <<>>, result |-> <<>>,
     valid |-> FALSE, delay |-> 0, returned |-> <<>>]

AiReturn(c, text) == [c EXCEPT !.pc = "returned", !.returned = text]

AiSleep(c, ms) == [c EXCEPT !.pc = "sleep", !.delay = ms]

\* the head of the for loop at `attempt`: the next completion request, or
\* the return after the loop
AiIssueRequest(c, attempt) ==
    IF attempt <= AI_MAX_RETRIES
    THEN [c EXCEPT !.pc = "request", !.attempt = attempt,
                   !.requests = Append(@, "pending")]
    ELSE AiReturn(c, fallbackText(c.leadData, c.region))

\* mutant: whatever the model answered is returned
AnswerSettledUnchecked(c, content) ==
    IF Truthy(trim(content))
    THEN AiReturn([c EXCEPT !.result = trim(content),
                            !.valid = validateAIResponse(trim(content))],
                  trim(content))
    ELSE IF c.attempt = AI_MAX_RETRIES
         THEN AiReturn(c, fallbackText(c.leadData, c.region))
         ELSE AiIssueRequest(c, c.attempt + 1)

\* callOpenAIWithTimeout resolved: content.trim() || '' is returned as it is
\* when it is non-empty and valid; else the last attempt returns the
\* fallback and an earlier one goes on to the next request at once
AnswerSettled(c, content) ==
    LET result == trim(content)
        valid == Truthy(result) /\ validateAIResponse(result)
        c1 == [c EXCEPT !.result = result, !.valid = valid]
    IN IF valid THEN AiReturn(c1, result)
       ELSE IF c.attempt = AI_MAX_RETRIES
            THEN AiReturn(c1, fallbackText(c.leadData, c.region))
            ELSE AiIssueRequest(c1, c.attempt + 1)

\* mutant: a quota error is handled like any other error
AiAttemptFailedQuotaRetried(c, code) ==
    IF code = "rate_limit_exceeded" /\ c.attempt # AI_MAX_RETRIES
    THEN AiSleep(c, AI_RETRY_DELAY * c.attempt)
    ELSE IF c.attempt = AI_MAX_RETRIES
         THEN AiReturn(c, fallbackText(c.leadData, c.region))
         ELSE AiSleep(c, AI_RETRY_DELAY)

\* the catch: quota -> fallback at once; rate limit and abort sleep and
\* continue unless it was the last attempt; otherwise the last attempt
\* returns the fallback and an earlier one sleeps before the next request
AiAttemptFailed(c, code) ==
    IF code = "insufficient_quota"
    THEN AiReturn(c, fallbackText(c.leadData, c.region))
    ELSE IF code = "rate_limit_exceeded" /\ c.attempt # AI_MAX_RETRIES
    THEN AiSleep(c, AI_RETRY_DELAY * c.attempt)
    ELSE IF code = "AbortError" /\ c.attempt # AI_MAX_RETRIES
    THEN AiSleep(c, AI_RETRY_DELAY)
    ELSE IF c.attempt = AI_MAX_RETRIES
    THEN AiReturn(c, fallbackText(c.leadData, c.region))
    ELSE AiSleep(c, AI_RETRY_DELAY)

\* processLeadWithAI(leadData, region) up to its first await: without an API
\* key or without a conclusion number the fallback is returned
AiEntered(c) ==
    IF ~c.apiKey THEN AiReturn(c, fallbackText(c.leadData, c.region))
    ELSE IF ~Truthy(trim(c.leadData.num))
    THEN AiReturn(c, fallbackText(c.leadData, c.region))
    ELSE AiIssueRequest(c, 1)

AiCallStart(leadData, region, apiKey) ==
    /\ aiCall.pc = "idle"
    /\ aiCall' = AiEntered([IdleAi EXCEPT !.leadData = leadData,
                                          !.region = region, !.apiKey = apiKey])
    /\ UNCHANGED pipelineVars
    /\ UNCHANGED fetchCall

\* await callOpenAIWithTimeout settles
AiRequestSettles ==
    /\ aiCall.pc = "request"
    /\ \/ \E content \in LlmContents :
             aiCall' = AnswerSettled(
                 [aiCall EXCEPT !.requests[aiCall.attempt] = "content"], content)
       \/ \E code \in LlmErrors :
             aiCall' = AiAttemptFailed(
                 [aiCall EXCEPT !.requests[aiCall.attempt] = code], code)
    /\ UNCHANGED pipelineVars
    /\ UNCHANGED fetchCall

\* await sleep(...) is over: the loop goes on with the next attempt
AiSleepOver ==
    /\ aiCall.pc = "sleep"
    /\ aiCall' = AiIssueRequest(aiCall, aiCall.attempt + 1)
    /\ UNCHANGED pipelineVars
    /\ UNCHANGED fetchCall

\* ------------------------------------------------------------ specification
NoRows == [p \in Pairs |-> 0]

\* the scheduler at rest over empty tables
InitStores ==
    /\ now = 0
    /\ isTaskRunning = FALSE
    /\ taskStartTime = 0
    /\ nextRun = 1
    /\ cache = [n \in Nums |-> NoText]
    /\ parsedData = NoRows
    /\ sendOk = NoRows
    /\ deliveredBy = [p \in Pairs |-> {}]
    /\ reattempted = FALSE
    /\ statistics = NothingLogged
    /\ fetchCall = IdleFetch
    /\ aiCall = IdleAi

\* no chat writes to the bot
InitCommon ==
    /\ InitStores
    /\ users = <<>>
    /\ userAction = [c \in Chats |-> "none"]
    /\ handlers = <<>>
    /\ inbox = <<>>

\* one subscriber of one region with one row today
OneRowSnapshot == [r \in Regions |-> IF r = RegionA THEN <<RecX>> ELSE <<>>]
OneSubscriber == << [userId |-> User1, configData |-> Cfg(<<RegionA>>)] >>
TwoRegions == << [userId |-> User1, configData |-> Cfg(<<RegionB, RegionA>>)] >>
NoSubscriptions == << [userId |-> User1, configData |-> Cfg(<<>>)] >>

\* the scheduler alone
InitSched ==
    /\ InitCommon
    /\ registry = OneRowSnapshot
    /\ configs \in {OneSubscriber, TwoRegions, NoSubscriptions}
    /\ runs = [s \in 1..MaxRunsSched |-> IdleRun]
    /\ trigs = <<>>

NextSched ==
    \/ CronSkip
    \/ CronStart
    \/ \E s \in RunSlots : RunStep(s)

SpecSched == InitSched /\ [][NextSched]_vars

\* the scheduler with every awaited call of a run settling (returning or
\* throwing): each run that can take a step eventually takes one
InitFair ==
    /\ InitCommon
    /\ registry = OneRowSnapshot
    /\ configs \in {OneSubscriber, TwoRegions, NoSubscriptions}
    /\ runs = [s \in 1..MaxRunsFair |-> IdleRun]
    /\ trigs = <<>>

FairSched ==
    /\ InitFair
    /\ [][NextSched]_vars
    /\ \A s \in 1..MaxRunsFair : WF_vars(RunStep(s))

\* one activation of the callback, over every snapshot and configuration
InitRun ==
    /\ InitCommon
    /\ registry \in RegistrySnapshots
    /\ configs \in ConfigTables
    /\ runs = << IdleRun >>
    /\ trigs = <<>>

SpecRun == InitRun /\ [][NextSched]_vars

\* scheduled runs and immediate triggers together
Init ==
    /\ InitCommon
    /\ registry = OneRowSnapshot
    /\ configs = OneSubscriber
    /\ runs = [s \in 1..MaxRuns |-> IdleRun]
    /\ trigs = [t \in 1..MaxTriggers |-> IdleTrig]

Next ==
    \/ CronSkip
    \/ CronStart
    \/ \E s \in RunSlots : RunStep(s)
    \/ \E t \in TrigSlots : TrigStep(t)

Spec == Init /\ [][Next]_vars

\* one scheduled run and one immediate trigger over snapshots with
\* irrelevant rows, rows without a number and a row whose developer name
\* carries an emoji marker
PipeSnapshots ==
    { [r \in Regions |-> IF r = RegionA THEN <<RecSkip, RecX>> ELSE <<>>],
      [r \in Regions |-> IF r = RegionA THEN <<RecSkip, RecNoNum>> ELSE <<RecMarked>>] }

PipeSubscriber == << [userId |-> User1, configData |-> Cfg(<<RegionA, RegionB>>)] >>

InitPipe ==
    /\ InitCommon
    /\ registry \in PipeSnapshots
    /\ configs = PipeSubscriber
    /\ runs = << IdleRun >>
    /\ trigs = << IdleTrig >>

SpecPipe == InitPipe /\ [][Next]_vars

\* one scheduled run over every table of two configurations: each configData
\* is corrupt, lacks a regions array, or lists up to MaxRegionList regions
\* (repetitions included); findAll returns the rows in either order
RegionLists == UNION { [1..n -> Regions] : n \in 0..MaxRegionList }
ConfigBlobs == {Corrupt, NoRegionsKey} \cup { Cfg(rs) : rs \in RegionLists }
AllConfigTables ==
    { << [userId |-> u1, configData |-> c1], [userId |-> u2, configData |-> c2] >> :
          << u1, u2, c1, c2 >> \in { q \in Users \X Users \X ConfigBlobs \X ConfigBlobs :
                                       q[1] # q[2] } }

InitCollect ==
    /\ InitCommon
    /\ registry = OneRowSnapshot
    /\ configs \in AllConfigTables
    /\ runs = << IdleRun >>
    /\ trigs = <<>>

SpecCollect == InitCollect /\ [][NextSched]_vars

\* one call of fetchEgrzDataWithRetry, for every region and snapshot and
\* every outcome of each attempt
InitEgrz ==
    /\ InitCommon
    /\ registry \in RegistrySnapshots
    /\ configs = OneSubscriber
    /\ runs = <<>>
    /\ trigs = <<>>

NextEgrz ==
    \/ \E region \in Regions : EgrzCallStart(region)
    \/ EgrzRequestSettles
    \/ EgrzSleepOver

SpecEgrz == InitEgrz /\ [][NextEgrz]_vars

\* one call of processLeadWithAI, for every record, with and without an API
\* key, and every outcome of each completion request
LeadRecords == {RecX, RecNoNum, RecMarked}

InitAi ==
    /\ InitCommon
    /\ registry = OneRowSnapshot
    /\ configs = OneSubscriber
    /\ runs = <<>>
    /\ trigs = <<>>

NextAi ==
    \/ \E leadData \in LeadRecords, region \in Regions, apiKey \in BOOLEAN :
          AiCallStart(leadData, region, apiKey)
    \/ AiRequestSettles
    \/ AiSleepOver

SpecAi == InitAi /\ [][NextAi]_vars

\* one scheduled run that finds delivery facts of earlier runs: every set
\* of facts for the two numbers of the snapshots, two subscribers
TwoSubscribers ==
    << [userId |-> User1, configData |-> Cfg(<<RegionA, RegionB>>)],
       [userId |-> User2, configData |-> Cfg(<<RegionA>>)] >>

FactTables ==
    { [p \in Pairs |-> IF p \in S THEN 1 ELSE 0] :
          S \in SUBSET (Users \X {NumX, NumY}) }

InitFacts ==
    /\ now = 0
    /\ isTaskRunning = FALSE
    /\ taskStartTime = 0
    /\ nextRun = 1
    /\ cache = [n \in Nums |-> NoText]
    /\ parsedData \in FactTables
    /\ sendOk = parsedData
    /\ deliveredBy = [p \in Pairs |-> IF parsedData[p] > 0 THEN {"sched"} ELSE {}]
    /\ reattempted = FALSE
    /\ statistics = NothingLogged
    /\ fetchCall = IdleFetch
    /\ aiCall = IdleAi
    /\ users = <<>>
    /\ userAction = [c \in Chats |-> "none"]
    /\ handlers = <<>>
    /\ inbox = <<>>
    /\ registry \in RegistrySnapshots
    /\ configs = TwoSubscribers
    /\ runs = << IdleRun >>
    /\ trigs = <<>>

SpecFacts == InitFacts /\ [][NextSched]_vars

\* The scheduler with a first run whose calls may fail and later runs whose
\* registry, database and Telegram calls all succeed.  Smooth(s): the step
\* of run s resumes from a call that resolved (findAll of the
\* configurations, the registry fetch, the bulk query, findOne, sendMessage,
\* ParsedData.create); a rejected ProcessedLead.create is allowed.
Smooth(s) ==
    /\ (runs[s].pc = "collect" /\ collectRegionUserMaps(configs) # <<>>)
       => runs'[s].pc = "fetch"
    /\ runs[s].pc \in {"fetch", "bulk"}
       => runs'[s].pc \in {"bulk", "cacheFind", "sleep"}
    /\ runs[s].pc = "cacheFind"
       => runs'[s].result.errorRecords = runs[s].result.errorRecords
    /\ runs[s].pc = "send"
       => \A u \in Users : runs'[s].batch[u] \notin {"sendFailed", "createFailed"}

LaterRunStep(s) == RunStep(s) /\ Smooth(s)

NextRetry ==
    \/ CronSkip
    \/ CronStart
    \/ RunStep(1)
    \/ \E s \in RunSlots \ {1} : LaterRunStep(s)

\* the timer keeps firing, every awaited call of the first run settles and
\* every awaited call of a later run resolves
FairRetry ==
    /\ InitFair
    /\ [][NextRetry]_vars
    /\ WF_vars(CronSkip \/ CronStart)
    /\ WF_vars(RunStep(1))
    /\ \A s \in 2..MaxRunsFair : WF_vars(LaterRunStep(s))

\* the chat interface and the scheduler: the admin presses "delete user" and
\* names the activated subscriber, or whitelists a username, or asks for
\* the regions and sends '/start', while one scheduled run may be under way
Idle(n) == [i \in 1..n |-> IdleHandler]
OneActivated == << [username |-> Alice, userId |-> User1, live |-> TRUE] >>
RevokeInbox ==
    << Message(AdminChat, NoUsername, ButtonText("delUser")),
       Message(AdminChat, NoUsername, ItemsText(<<Alice>>)) >>
WhitelistInbox ==
    << Message(AdminChat, NoUsername, ButtonText("addUser")),
       Message(AdminChat, NoUsername, ItemsText(<<Bob>>)) >>
ShowInbox ==
    << Message(AdminChat, NoUsername, ButtonText("myRegions")),
       Message(AdminChat, NoUsername, StartText) >>

InitRevoke ==
    /\ InitStores
    /\ registry = OneRowSnapshot
    /\ configs = OneSubscriber
    /\ runs = << IdleRun >>
    /\ trigs = <<>>
    /\ users = OneActivated
    /\ userAction = [c \in Chats |-> "none"]
    /\ inbox \in {RevokeInbox, WhitelistInbox, ShowInbox}
    /\ handlers = Idle(2)

HandlerSlots == 1..Len(handlers)

NextRevoke ==
    \/ MessageArrives
    \/ \E i \in HandlerSlots : HandlerStep(i)
    \/ CronSkip
    \/ CronStart
    \/ \E s \in RunSlots : RunStep(s)

SpecRevoke == InitRevoke /\ [][NextRevoke]_vars

\* the chat interface alone: two messages from the two user chats, each
\* '/start', the "add region" button or a region code, from a sender with
\* the whitelisted username or with none; the whitelisted row is missing,
\* not yet activated, or bound to the first chat, which may have pressed
\* "add region" while it had access
Whitelisted == << [username |-> Alice, userId |-> NoChat, live |-> TRUE] >>
GateTexts == {StartText, ButtonText("addRegion"), ItemsText(<<"78">>)}
GateMessages ==
    { Message(c, n, t) : c \in Users, n \in {Alice, NoUsername}, t \in GateTexts }
PendingAdd == [c \in Chats |-> IF c = User1 THEN "add_region" ELSE "none"]

InitGate ==
    /\ InitStores
    /\ registry = OneRowSnapshot
    /\ configs = OneSubscriber
    /\ runs = <<>>
    /\ trigs = << IdleTrig >>
    /\ users \in {<<>>, Whitelisted, OneActivated}
    /\ userAction \in {[c \in Chats |-> "none"], PendingAdd}
    /\ inbox \in { << m1, m2 >> : m1 \in GateMessages, m2 \in GateMessages }
    /\ handlers = Idle(2)

NextGate ==
    \/ MessageArrives
    \/ \E i \in HandlerSlots : HandlerStep(i)
    \/ \E t \in TrigSlots : TrigRuns(t)

SpecGate == InitGate /\ [][NextGate]_vars

\* one activated subscriber of Vologda adds regions and deletes regions: the
\* button and the codes of the one, then of the other, in either order
AddInbox(codes) ==
    << Message(User1, Alice, ButtonText("addRegion")),
       Message(User1, Alice, ItemsText(codes)) >>
DelInbox(codes) ==
    << Message(User1, Alice, ButtonText("delRegion")),
       Message(User1, Alice, ItemsText(codes)) >>
RegionInboxes ==
    UNION { { AddInbox(a) \o DelInbox(d), DelInbox(d) \o AddInbox(a) } :
            << a, d >> \in {<<"78">>, <<"35", "78">>} \X {<<"35">>, <<"78">>} }

InitRegions ==
    /\ InitStores
    /\ registry = OneRowSnapshot
    /\ configs = OneSubscriber
    /\ runs = <<>>
    /\ trigs = << IdleTrig, IdleTrig >>
    /\ users = OneActivated
    /\ userAction = [c \in Chats |-> "none"]
    /\ inbox \in RegionInboxes
    /\ handlers = Idle(4)

SpecRegions == InitRegions /\ [][NextGate]_vars

\* ------------------------------------------------------------------ claims
Active(r) == r.pc \notin {"idle", "done"}

\* C1: for every (userId, conclusionNumber), over any sequence of scheduled
\* runs and any outcomes of the external calls, the send of that record to
\* that user succeeds at most once.
C1_SentAtMostOnce == \A p \in Pairs : sendOk[p] <= 1

\* C5: a firing that finds the lock held and not older than
\* MAX_EXECUTION_TIME starts no run, leaves isTaskRunning and taskStartTime
\* as they are and queues nothing: only the clock moves.
C5_SkipChangesNothing ==
    [][ (now' # now /\ isTaskRunning /\ now' - taskStartTime <= MAX_EXECUTION_TIME)
        => UNCHANGED << isTaskRunning, taskStartTime, runs, nextRun, trigs,
                        registry, configs, cache, parsedData, sendOk,
                        deliveredBy, reattempted, statistics >> ]_vars

\* a firing was skipped: the lock is held by a run started at an earlier
\* firing and is not stale
C5_Witness ==
    /\ isTaskRunning
    /\ now > taskStartTime
    /\ now - taskStartTime <= MAX_EXECUTION_TIME

\* C6: two scheduled runs execute at the same time only if the earlier one
\* had exceeded MAX_EXECUTION_TIME when the later one started.
C6_OverlapOnlyWhenStale ==
    \A s1, s2 \in RunSlots :
        (s1 < s2 /\ Active(runs[s1]) /\ Active(runs[s2]))
        => runs[s2].startedAt - runs[s1].startedAt > MAX_EXECUTION_TIME

\* C7: a firing that finds the lock held for more than MAX_EXECUTION_TIME
\* takes the lock again in that same firing (isTaskRunning true,
\* taskStartTime now) and starts a run; the locals of every earlier run are
\* untouched, and a run that has not returned can always take its next step.
C7_StaleFiringStartsRun ==
    /\ [][ (now' # now /\ isTaskRunning /\ now' - taskStartTime > MAX_EXECUTION_TIME)
           => /\ isTaskRunning'
              /\ taskStartTime' = now'
              /\ nextRun' = nextRun + 1
              /\ runs'[nextRun].pc = "collect"
              /\ \A s \in RunSlots \ {nextRun} : runs'[s] = runs[s] ]_vars
    /\ [](\A s \in RunSlots : Active(runs[s]) => ENABLED RunStep(s))

\* a run started by a stale firing beside the run it abandoned
C7_Witness ==
    \E s1, s2 \in RunSlots :
        /\ s1 < s2
        /\ Active(runs[s1])
        /\ runs[s2].pc = "collect"
        /\ taskStartTime = runs[s2].startedAt
        /\ runs[s2].startedAt - runs[s1].startedAt > MAX_EXECUTION_TIME

\* C8: every run that took the lock eventually executes the finally that
\* sets isTaskRunning to false, given that each awaited call settles.
C8_LockReleased ==
    \A s \in 1..MaxRunsFair : Active(runs[s]) ~> runs[s].released

\* a run whose region fetch threw has logged its statistics and released
C8_Witness ==
    /\ \E s \in RunSlots : runs[s].released
    /\ statistics.logged
    /\ statistics.fetchFailed # {}
    /\ ~isTaskRunning

\* C2: when a scheduled run and triggerImmediateParse overlap on a pair
\* that has no delivery fact yet, the user is sent the notification at most
\* once: never do both the run and the trigger send the record and record
\* the delivery.
C2_RaceSendsOnce == \A p \in Pairs : deliveredBy[p] # {"sched", "trigger"}

\* C3: a delivery fact for a pair is written only after a send of that
\* record to that user succeeded, and a send that failed is not issued again
\* by the same run or trigger invocation.
C3_FactAfterSendNoRetry ==
    /\ \A p \in Pairs : parsedData[p] <= sendOk[p]
    /\ ~reattempted

\* C4: in every reachable state parsed_data holds at most one row per
\* (userId, conclusionNumber).
C4_OneFactPerPair == \A p \in Pairs : parsedData[p] <= 1

\* C9: when the fetch of a region fails, the run still handles every region
\* of its map, and the statistics hold exactly one entry for the failed
\* region, with totalRecords 0, processedRecords 0 and errorRecords 1.
C9_FailedRegionCounted ==
    statistics.logged =>
        /\ Len(statistics.results) = Len(statistics.regions)
        /\ \A i \in 1..Len(statistics.results) :
              statistics.results[i].region = statistics.regions[i]
        /\ \A i, j \in 1..Len(statistics.results) :
              i # j => statistics.results[i].region # statistics.results[j].region
        /\ \A i \in statistics.fetchFailed :
              /\ i \in 1..Len(statistics.results)
              /\ statistics.results[i].totalRecords = 0
              /\ statistics.results[i].processedRecords = 0
              /\ statistics.results[i].errorRecords = 1

\* the first region failed and a later region delivered its rows
C9_Witness ==
    /\ statistics.logged
    /\ \E i \in statistics.fetchFailed :
          \E j \in 1..Len(statistics.results) :
              /\ j > i
              /\ j \notin statistics.fetchFailed
              /\ statistics.results[j].totalRecords > 0
              /\ statistics.results[j].processedRecords > 0

\* C10: in sendMessageToUsers no failed send keeps another subscriber's send
\* or delivery-fact write from settling, and the function returns only when
\* the send of every subscriber of the batch has settled.
C10_BatchSettlesAll ==
    /\ [][ \A s \in RunSlots :
              (runs[s].pc = "send" /\ runs'[s] # runs[s]
                  /\ runs'[s].batch = NoBatch)
              => \A u \in Users :
                    InSeq(u, runs[s].usersToSend)
                    => runs[s].batch[u] \in {"delivered", "sendFailed", "createFailed"} ]_vars
    /\ [](\A s \in RunSlots : \A u \in Users :
              runs[s].pc = "send"
              => /\ runs[s].batch[u] = "pending" => ENABLED SendResolve(s, u)
                 /\ runs[s].batch[u] = "creating" => ENABLED CreateResolve(s, u))

\* a batch in which one subscriber's send failed and another's was delivered
C10_Witness ==
    \E s \in RunSlots : \E u, v \in Users :
        /\ runs[s].pc = "send"
        /\ allSettled(runs[s].batch)
        /\ runs[s].batch[u] = "sendFailed"
        /\ runs[s].batch[v] = "delivered"

\* C11: a scheduled run over the registry snapshot and the subscriptions an
\* earlier, finished run has already worked through produces no new send and
\* no new cache write: it sends no record again to a user who was sent it,
\* and writes no cache entry for a record that was already sent.
C11_RerunIdempotent ==
    [][ \A s \in RunSlots :
            (runs[s].afterCompleteRun /\ runs'[s] # runs[s])
            => /\ \A p \in Pairs : sendOk[p] > 0 => sendOk'[p] = sendOk[p]
               /\ \A n \in Nums :
                     (\E u \in Users : sendOk[<< u, n >>] > 0)
                     => cache'[n] = cache[n] ]_vars

\* a row whose developer-info field, trimmed and lower-cased, is the sentinel
IrrelevantRow(rec) == toLowerCase(trim(rec.dev)) = NOT_REQUIRED
IrrelevantRows(records) == { i \in 1..Len(records) : IrrelevantRow(records[i]) }

C13_CacheEntryImmutable ==
    /\ [][ \A n \in Nums : cache[n] # NoText => cache'[n] = cache[n] ]_vars
    /\ [][ \A s \in RunSlots :
              (runs[s].pc = "cacheFind" /\ runs'[s] # runs[s]
                  /\ cache[CurrentRecord(runs[s]).num] # NoText)
              => /\ runs'[s].pc # "cacheCreate"
                 /\ (runs'[s].pc = "send" /\ runs'[s].k = runs[s].k)
                    => runs'[s].messageText = cache[CurrentRecord(runs[s]).num] ]_vars
    /\ [][ \A t \in TrigSlots :
              (trigs[t].pc = "cacheFind" /\ trigs'[t] # trigs[t]
                  /\ cache[CurrentRecord(trigs[t]).num] # NoText)
              => /\ trigs'[t].pc # "cacheCreate"
                 /\ trigs'[t].pc = "send"
                    => trigs'[t].messageText = cache[CurrentRecord(trigs[t]).num] ]_vars

\* a run and a trigger enriched the same number to different cacheable
\* texts: the first is in the cache, the other one goes out uncached
C13_Witness ==
    \E s \in RunSlots, t \in TrigSlots :
        /\ runs[s].pc = "send"
        /\ trigs[t].pc = "send"
        /\ CurrentRecord(runs[s]).num = CurrentRecord(trigs[t]).num
        /\ runs[s].messageText.kind = "ai"
        /\ trigs[t].messageText.kind = "ai"
        /\ runs[s].messageText # trigs[t].messageText
        /\ cache[CurrentRecord(runs[s]).num] \in {runs[s].messageText, trigs[t].messageText}

\* C14: processed_leads only ever holds texts that passed validateAIResponse;
\* the fallback text of processLeadWithAI is never written to the cache,
\* whatever the fields of the record contain.
C14_OnlyValidatedCached ==
    \A n \in Nums : cache[n] # NoText => cache[n].kind = "ai"

\* C15: when processed_leads holds a text for the record's conclusion
\* number, getOrCreateProcessedMessage returns that text: the step that
\* resumes from findOne calls no LLM and writes no cache entry, it goes on to
\* the send with the stored text (or ends the record on a rejected findOne).
C15_HitReturnsStoredText ==
    /\ [][ \A s \in RunSlots :
              (runs[s].pc = "cacheFind" /\ runs'[s] # runs[s]
                  /\ cache[CurrentRecord(runs[s]).num] # NoText)
              => /\ cache' = cache
                 /\ IF runs'[s].cacheHit
                    THEN /\ runs'[s].pc = "send"
                         /\ runs'[s].k = runs[s].k
                         /\ runs'[s].messageText = cache[CurrentRecord(runs[s]).num]
                    ELSE /\ runs'[s].pc \in {"cacheFind", "sleep"}
                         /\ runs'[s].result.errorRecords
                               = runs[s].result.errorRecords + 1 ]_vars
    /\ [][ \A t \in TrigSlots :
              (trigs[t].pc = "cacheFind" /\ trigs'[t] # trigs[t]
                  /\ cache[CurrentRecord(trigs[t]).num] # NoText)
              => /\ cache' = cache
                 /\ IF trigs'[t].cacheHit
                    THEN /\ trigs'[t].pc = "send"
                         /\ trigs'[t].k = trigs[t].k
                         /\ trigs'[t].messageText = cache[CurrentRecord(trigs[t]).num]
                    ELSE trigs'[t].pc = "errorMsg" ]_vars

\* a trigger is sending a text it found in the cache
C15_Witness ==
    \E t \in TrigSlots :
        /\ trigs[t].pc = "send"
        /\ trigs[t].cacheHit
        /\ trigs[t].messageText = cache[CurrentRecord(trigs[t]).num]

\* C16: whichever path triggerImmediateParse takes (no data, records sent,
\* only irrelevant records, everything sent before, an exception anywhere),
\* by the time the invocation has ended the send of at least one terminal
\* message to the requesting user was attempted.
C16_TerminalMessageAttempted ==
    \A t \in TrigSlots : trigs[t].pc = "done" => trigs[t].terminal >= 1

\* an invocation ended after its summary could not be sent and the error
\* message was sent instead
C16_Witness ==
    \E t \in TrigSlots :
        /\ trigs[t].pc = "done"
        /\ trigs[t].summary = "irrelevant"
        /\ trigs[t].terminal = 2
        /\ ~trigs[t].rejected

\* C17: triggerImmediateParse is outside the run-lock: no step of an
\* invocation changes isTaskRunning or taskStartTime, and an invocation can
\* start and take its next step whatever the lock says, also while a
\* scheduled run holds it.
C17_TriggerOutsideLock ==
    /\ [][ trigs' # trigs => UNCHANGED << isTaskRunning, taskStartTime >> ]_vars
    /\ [](\A t \in TrigSlots :
              (trigs[t].pc # "done" /\ \A t0 \in 1..(t - 1) : trigs[t0].pc # "idle")
              => ENABLED TrigStep(t))

\* an invocation is sending a record while a scheduled run holds the lock
C17_Witness ==
    /\ isTaskRunning
    /\ \E s \in RunSlots : Active(runs[s])
    /\ \E t \in TrigSlots : trigs[t].pc = "send"

\* the RegionUserMap[] a run holds once collectRegionUserMaps has returned
HoldsMap(r) == Active(r) /\ r.pc # "collect"

\* the users whose parseable configuration lists the region
Listing(rows, region) ==
    { rows[i].userId : i \in { j \in 1..Len(rows) :
                                  /\ rows[j].configData.ok
                                  /\ rows[j].configData.hasRegions
                                  /\ InSeq(region, rows[j].configData.regions) } }

\* C18: in the result of collectRegionUserMaps no userId occurs twice in the
\* subscriber list of a region, also when a stored regions array repeats a
\* label; this is the map the run goes on with.
C18_SubscribersDeduplicated ==
    LET map == collectRegionUserMaps(configs)
    IN /\ \A i \in 1..Len(map) :
              \A j, k \in 1..Len(map[i].userIds) :
                  j # k => map[i].userIds[j] # map[i].userIds[k]
       /\ \A s \in RunSlots : HoldsMap(runs[s]) => runs[s].regionUserMaps = map

\* a run holds the map of a table in which a regions array repeats a label
C18_Witness ==
    /\ \E s \in RunSlots : runs[s].pc = "fetch" /\ runs[s].regionUserMaps # <<>>
    /\ \E i \in 1..Len(configs) :
          /\ configs[i].configData.ok
          /\ \E j, k \in 1..Len(configs[i].configData.regions) :
                j < k /\ configs[i].configData.regions[j] = configs[i].configData.regions[k]

\* C19: the result of collectRegionUserMaps has one entry for exactly the
\* region labels some parseable configuration lists, each with exactly the
\* users listing it; a user whose regions array is empty or missing is in no
\* subscriber list.
C19_KeysAndSubscribersExact ==
    LET map == collectRegionUserMaps(configs)
    IN /\ { map[i].region : i \in 1..Len(map) }
              = { region \in Regions : Listing(configs, region) # {} }
       /\ \A i, j \in 1..Len(map) : i # j => map[i].region # map[j].region
       /\ \A i \in 1..Len(map) :
              { map[i].userIds[j] : j \in 1..Len(map[i].userIds) }
                  = Listing(configs, map[i].region)
       /\ \A s \in RunSlots : HoldsMap(runs[s]) => runs[s].regionUserMaps = map

\* a run holds a map with two regions, one user listing both and the other
\* user with an empty or missing regions array
C19_Witness ==
    /\ \E s \in RunSlots : runs[s].pc = "fetch" /\ Len(runs[s].regionUserMaps) = 2
    /\ \E i \in 1..Len(configs) :
          /\ configs[i].configData.ok
          /\ Len(configs[i].configData.regions) = 0

\* the rows whose configData JSON.parse accepts
ParseableRows(rows) == SelectSeq(rows, LAMBDA row : row.configData.ok)

\* C20: a configuration whose configData cannot be parsed takes only its
\* own user out: the result is the aggregate of all other rows, and the run
\* can go on with it; collectRegionUserMaps does not throw because of it.
C20_CorruptRowSkipped ==
    LET expected == collectRegionUserMaps(ParseableRows(configs))
    IN /\ collectRegionUserMaps(configs) = expected
       /\ \A s \in RunSlots :
              /\ HoldsMap(runs[s]) => runs[s].regionUserMaps = expected
              /\ (runs[s].pc = "collect" /\ expected # <<>>)
                 => ENABLED (Collect(s) /\ runs'[s].pc = "fetch")

\* a run goes on with the subscriptions of one user while the configData of
\* the other user is corrupt
C20_Witness ==
    /\ \E s \in RunSlots : runs[s].pc = "fetch" /\ runs[s].regionUserMaps # <<>>
    /\ \E i \in 1..Len(configs) : ~configs[i].configData.ok

\* C21: one call of fetchEgrzDataWithRetry issues at most MAX_RETRIES
\* requests; after a network error (ECONNRESET, ETIMEDOUT, ECONNABORTED) on
\* attempt 1 or 2 the next request follows (after the sleep, which always
\* ends in that request); and when the third attempt fails too, the call
\* throws that error to its caller.
C21_BoundedRetriesThenThrow ==
    /\ Len(fetchCall.requests) <= MAX_RETRIES
    /\ \A i \in 1..Len(fetchCall.requests) :
          (i < MAX_RETRIES /\ fetchCall.requests[i].outcome \in NetworkCodes)
          => \/ Len(fetchCall.requests) > i
             \/ /\ fetchCall.pc = "sleep"
                /\ fetchCall.attempt = i
                /\ ENABLED (EgrzSleepOver /\ Len(fetchCall'.requests) = i + 1)
    /\ (/\ Len(fetchCall.requests) = MAX_RETRIES
        /\ fetchCall.requests[MAX_RETRIES].outcome \notin {"pending", "rows", "empty"})
       => /\ fetchCall.pc = "threw"
          /\ fetchCall.error = fetchCall.requests[MAX_RETRIES].outcome

\* a call threw after two network errors and a third failed attempt
C21_Witness ==
    /\ fetchCall.pc = "threw"
    /\ Len(fetchCall.requests) = MAX_RETRIES
    /\ fetchCall.requests[1].outcome \in NetworkCodes
    /\ fetchCall.requests[2].outcome \in NetworkCodes
    /\ fetchCall.error \in NetworkCodes

\* C27: in fetchEgrzDataWithRetry no second or third request is issued
\* before RETRY_DELAY has passed since the previous attempt failed, whatever
\* that attempt failed with.
C27_RetryAfterDelay ==
    \A i \in 2..Len(fetchCall.requests) :
        fetchCall.requests[i].issuedAt - fetchCall.requests[i - 1].settledAt
            >= RETRY_DELAY
\* C22: one call of processLeadWithAI issues at most three completion
\* requests, and a request that fails with insufficient_quota is the last
\* one of the call: the fallback text is returned with no sleep and no
\* further request.
C22_AtMostThreeQuotaStops ==
    /\ Len(aiCall.requests) <= AI_MAX_RETRIES
    /\ \A i \in 1..Len(aiCall.requests) :
          aiCall.requests[i] = "insufficient_quota"
          => /\ i = Len(aiCall.requests)
             /\ aiCall.pc = "returned"
             /\ aiCall.returned = fallbackText(aiCall.leadData, aiCall.region)

\* the second request of a call failed with insufficient_quota after the
\* first one had hit the rate limit
C22_Witness ==
    /\ aiCall.pc = "returned"
    /\ aiCall.requests = << "rate_limit_exceeded", "insufficient_quota" >>

\* C28: what processLeadWithAI returns is never empty, and it is either the
\* answer of the model, which passed validateAIResponse, or exactly the
\* template fallback text of the record, whatever the completion requests
\* ended with.
C28_ReturnsValidatedOrFallback ==
    aiCall.pc = "returned"
    => /\ aiCall.returned # <<>>
       /\ \/ aiCall.returned = fallbackText(aiCall.leadData, aiCall.region)
          \/ /\ aiCall.returned = aiCall.result
             /\ aiCall.valid
             /\ validateAIResponse(aiCall.returned)

\* a call returned the fallback after an empty answer, an error and a last
\* answer that failed validation
C28_Witness ==
    /\ aiCall.pc = "returned"
    /\ Len(aiCall.requests) = AI_MAX_RETRIES
    /\ aiCall.requests[2] = "other"
    /\ aiCall.requests[AI_MAX_RETRIES] = "content"
    /\ aiCall.result # <<>>
    /\ ~aiCall.valid
    /\ aiCall.returned = fallbackText(aiCall.leadData, aiCall.region)

\* the phrase occurs in the response, letter case ignored
ContainsIgnoringCase(response, phrase) ==
    StrIncludes(toLowerCase(response), toLowerCase(phrase))

\* C29: validateAIResponse accepts an answer exactly when it has at least
\* 50 characters, contains the label and each of the three emoji markers,
\* and contains none of the listed phrases in any letter case.
C29_ValidationExact ==
    aiCall.valid =
        /\ length(aiCall.result) >= MIN_RESPONSE_LENGTH
        /\ StrIncludes(aiCall.result, LABEL)
        /\ StrIncludes(aiCall.result, <<"CITY">>)
        /\ StrIncludes(aiCall.result, <<"HOUSE">>)
        /\ StrIncludes(aiCall.result, <<"FACTORY">>)
        /\ \A p \in 1..Len(invalidPhrases) :
              ~ContainsIgnoringCase(aiCall.result, invalidPhrases[p])
\* the run is handling a row: cache lookup / LLM, cache write, or sends
RecordPcs == {"cacheFind", "cacheCreate", "send"}

\* the subscribers of the run's current region who held a fact for a number
\* of the fetched rows when the bulk query was answered
FactsAtBulk(r) ==
    { p \in Pairs : /\ InSeq(p[1], CurrentUserIds(r))
                    /\ \E i \in 1..Len(r.records) : r.records[i].num = p[2]
                    /\ Truthy(trim(p[2]))
                    /\ parsedData[p] > 0 }

\* the step that resumes from the bulk query keeps exactly those facts
BulkReadsFacts(s) ==
    (runs[s].pc = "bulk" /\ runs'[s].pc \in RecordPcs)
    => runs'[s].sentCombinations = FactsAtBulk(runs[s])

\* and they stay as read for all rows of the region
KeepsCombinations(s) ==
    (runs[s].pc \in RecordPcs /\ runs'[s].pc \in RecordPcs)
    => runs'[s].sentCombinations = runs[s].sentCombinations

\* C23: in a scheduled run, the step that starts the sends of a row issues
\* a send to exactly those subscribers of the region who had no delivery
\* fact for the row's conclusion number when the region's bulk check was
\* answered; a subscriber who had one is sent nothing.
C23_SendsExactlyToUnsent ==
    [][ \A s \in RunSlots :
            /\ BulkReadsFacts(s)
            /\ KeepsCombinations(s)
            /\ (runs[s].pc # "send" /\ runs'[s].pc = "send")
               => \A u \in Users :
                     (runs'[s].batch[u] = "pending")
                     <=> /\ InSeq(u, CurrentUserIds(runs'[s]))
                         /\ << u, CurrentRecord(runs'[s]).num >>
                                \notin runs'[s].sentCombinations ]_vars

\* user1 holds a fact for the row, user2 does not: the row is being sent to
\* user2 alone
C23_Witness ==
    \E s \in RunSlots :
        /\ runs[s].pc = "send"
        /\ CurrentUserIds(runs[s]) = << User1, User2 >>
        /\ << User1, CurrentRecord(runs[s]).num >> \in runs[s].sentCombinations
        /\ parsedData[<< User1, CurrentRecord(runs[s]).num >>] = 1
        /\ runs[s].batch[User1] = "none"
        /\ runs[s].batch[User2] = "pending"

\* the rows of parsed_data for a conclusion number
FactsFor(number) ==
    LET RECURSIVE Sum(_)
        Sum(S) == IF S = {} THEN 0
                  ELSE LET u == CHOOSE u \in S : TRUE
                       IN parsedData[<< u, number >>] + Sum(S \ {u})
    IN Sum(Users)

\* C24: region subscribers {user1, user2} without facts, one relevant row,
\* a cache miss and a validated enrichment: the run sends one and the same
\* text to both users, and once both sends and the writes have succeeded
\* there are exactly two delivery facts for the number, one per user, and
\* the cache holds the one entry with that text.
C24_TwoSubscribersOneRecord ==
    \A s \in RunSlots :
        (/\ runs[s].pc = "send"
         /\ Len(runs[s].records) = 1
         /\ CurrentUserIds(runs[s]) = << User1, User2 >>
         /\ runs[s].sentCombinations = {}
         /\ ~runs[s].cacheHit
         /\ runs[s].messageText.kind = "ai")
        => /\ \A u \in Users : runs[s].batch[u] # "none"
           /\ (/\ \A u \in Users : runs[s].batch[u] = "delivered"
               /\ cache[CurrentRecord(runs[s]).num] # NoText)
              => /\ \A u \in Users :
                       /\ parsedData[<< u, CurrentRecord(runs[s]).num >>] = 1
                       /\ sendOk[<< u, CurrentRecord(runs[s]).num >>] = 1
                 /\ FactsFor(CurrentRecord(runs[s]).num) = 2
                 /\ cache[CurrentRecord(runs[s]).num] = runs[s].messageText

\* both users were sent the enriched text of the one row, both facts and the
\* cache entry are written
C24_Witness ==
    \E s \in RunSlots :
        /\ runs[s].pc = "send"
        /\ runs[s].records = << RecX >>
        /\ CurrentUserIds(runs[s]) = << User1, User2 >>
        /\ runs[s].sentCombinations = {}
        /\ ~runs[s].cacheHit
        /\ runs[s].messageText.kind = "ai"
        /\ \A u \in Users : runs[s].batch[u] = "delivered"
        /\ FactsFor(NumX) = 2
        /\ cache[NumX] = runs[s].messageText

\* C25: a row for which every subscriber of the region held a delivery fact
\* when the region's bulk check was answered gets no cache lookup, no LLM
\* call, no cache write and no send in that run.
C25_AllSentNothingDone ==
    [][ \A s \in RunSlots :
            /\ BulkReadsFacts(s)
            /\ KeepsCombinations(s)
            /\ runs'[s].pc \in RecordPcs
               => \E u \in Users :
                     /\ InSeq(u, CurrentUserIds(runs'[s]))
                     /\ << u, CurrentRecord(runs'[s]).num >>
                            \notin runs'[s].sentCombinations ]_vars

\* a run has logged a region whose one relevant row every subscriber had
\* been sent before: nothing processed, nothing skipped, no error
C25_Witness ==
    /\ statistics.logged
    /\ \E i \in 1..Len(statistics.results) :
          /\ registry[statistics.regions[i]] = << RecX >>
          /\ statistics.regions[i] = RegionA
          /\ \A u \in Users : parsedData[<< u, NumX >>] = 1
          /\ statistics.results[i].totalRecords = 1
          /\ statistics.results[i].processedRecords = 0
          /\ statistics.results[i].skippedRecords = 0
          /\ statistics.results[i].errorRecords = 0
\* the step starts the registry fetch of a region in run s
StartsFetch(s) ==
    /\ runs'[s].pc = "fetch"
    /\ runs[s].pc # "fetch" \/ runs'[s].ri # runs[s].ri

\* C26: one run handles its regions strictly one after another.  The fetch
\* of region i + 1 starts only from the sleep that follows the completed
\* region i (all of its rows handled, every send of its batches settled,
\* its result pushed) or from the failure of region i (error entry pushed);
\* while a fetch is in flight nothing else of the run is: no rows held, no
\* send or write pending, and every earlier region has its entry.
C26_RegionsOneByOne ==
    [][ \A s \in RunSlots :
            /\ StartsFetch(s)
               => \/ /\ runs[s].pc = "collect"
                     /\ runs'[s].ri = 1
                  \/ /\ runs[s].pc = "sleep"
                     /\ runs'[s].ri = runs[s].ri + 1
                     /\ Len(runs[s].results) = runs[s].ri
                     /\ runs'[s].results = runs[s].results
                  \/ /\ runs[s].pc \in {"fetch", "bulk"}
                     /\ runs'[s].ri = runs[s].ri + 1
                     /\ runs'[s].results =
                            Append(runs[s].results,
                                   ErrorResult(runs[s].regionUserMaps[runs[s].ri].region))
            /\ runs'[s].pc = "fetch"
               => /\ Len(runs'[s].results) = runs'[s].ri - 1
                  /\ \A i \in 1..Len(runs'[s].results) :
                        runs'[s].results[i].region = runs'[s].regionUserMaps[i].region
                  /\ runs'[s].records = <<>>
                  /\ runs'[s].batch = NoBatch
            /\ (runs[s].pc = "send" /\ runs'[s].pc # "send")
               => \A u \in Users : Settled(runs[s].batch[u]) ]_vars

\* the fetch of the second region is in flight after the first region's row
\* was sent and its result pushed
C26_Witness ==
    \E s \in RunSlots :
        /\ runs[s].pc = "fetch"
        /\ runs[s].ri = 2
        /\ Len(runs[s].results) = 1
        /\ runs[s].results[1].processedRecords > 0
        /\ \E p \in Pairs : sendOk[p] > 0
\* the pairs of a row of the one-row snapshot and a user subscribed to its
\* region: the sends a scheduled run can issue
SubscribedPairs ==
    { << OneSubscriber[i].userId, OneRowSnapshot[RegionA][j].num >> :
        i \in 1..Len(OneSubscriber), j \in 1..Len(OneRowSnapshot[RegionA]) }

\* C30: a send that failed records no delivery fact, and a later run whose
\* bulk check finds no fact for the pair issues the send to that subscriber
\* again when it sends the row; so, the row staying in the registry and the
\* calls of the next run succeeding, every pair whose send failed is
\* eventually delivered and its delivery fact recorded.
C30_FailedSendRetried ==
    /\ [][ \A s \in RunSlots :
              /\ \A u \in Users :
                    (runs[s].pc = "send" /\ runs[s].batch[u] = "pending"
                        /\ runs'[s].pc = "send" /\ runs'[s].batch[u] = "sendFailed")
                    => /\ parsedData' = parsedData
                       /\ sendOk' = sendOk
              /\ BulkReadsFacts(s)
              /\ (runs[s].pc # "send" /\ runs'[s].pc = "send")
                 => \A u \in Users :
                       (/\ InSeq(u, CurrentUserIds(runs'[s]))
                        /\ << u, CurrentRecord(runs'[s]).num >>
                               \notin runs'[s].sentCombinations)
                       => runs'[s].batch[u] = "pending" ]_vars
    /\ \A p \in SubscribedPairs :
          (\E s \in RunSlots : p \in runs[s].failedSends)
          ~> (parsedData[p] >= 1 /\ sendOk[p] >= 1)

\* the first run has handled the row and logged its statistics without a
\* send that succeeded; the next run is sending the row to the same user
C30_Witness ==
    /\ runs[1].pc = "done"
    /\ statistics.logged
    /\ \E i \in 1..Len(statistics.results) : statistics.results[i].processedRecords = 1
    /\ sendOk[<< User1, NumX >>] = 0
    /\ parsedData[<< User1, NumX >>] = 0
    /\ runs[2].pc = "send"
    /\ runs[2].batch[User1] = "pending"

\* C31: fetchEgrzDataWithRetry returns an empty list only from an attempt
\* whose request was answered and whose payload held no data row; a call
\* whose last request failed never returns (it sleeps, retries or throws).
C31_EmptyOnlyFromSuccess ==
    LET n == Len(fetchCall.requests)
    IN /\ (fetchCall.pc = "returned" /\ fetchCall.returned = <<>>)
          => /\ n >= 1
             /\ fetchCall.attempt = n
             /\ \/ fetchCall.requests[n].outcome = "empty"
                \/ /\ fetchCall.requests[n].outcome = "rows"
                   /\ registry[fetchCall.region] = <<>>
       /\ (n >= 1 /\ fetchCall.requests[n].outcome \notin {"pending", "rows", "empty"})
          => fetchCall.pc \in {"sleep", "threw"}

\* a call returned the empty list from its second request, after the first
\* one had failed
C31_Witness ==
    /\ fetchCall.pc = "returned"
    /\ fetchCall.returned = <<>>
    /\ Len(fetchCall.requests) = 2
    /\ fetchCall.requests[1].outcome \notin {"rows", "empty"}
    /\ fetchCall.requests[2].outcome = "empty"

\* C32: within one scheduled run no send is issued for a (subscriber,
\* conclusion number) pair that the run has already delivered, also when the
\* rows of the region repeat a conclusion number.
C32_PairOncePerRun ==
    \A s \in RunSlots : \A u \in Users :
        (runs[s].pc = "send" /\ runs[s].batch[u] = "pending")
        => sendOk[<< u, CurrentRecord(runs[s]).num >>] = 0

\* C33: the promise of triggerImmediateParse never rejects, whatever the
\* registry, LLM, database and Telegram calls do.
C33_TriggerNeverRejects == \A t \in TrigSlots : ~trigs[t].rejected

\* the delivery facts one invocation has created
CreatedByTrigger(userId) ==
    { p \in Pairs : p[1] = userId /\ "trigger" \in deliveredBy[p] }

\* C34: when the summary says that every found record had been sent before,
\* each fetched row with a conclusion number and a required developer has a
\* delivery fact for the user; and the count of the summary is the number of
\* delivery facts the invocation created.
C34_SummaryTellsFacts ==
    \A t \in TrigSlots :
        trigs[t].pc = "finalMsg"
        => /\ trigs[t].summary = "allSentBefore"
              => \A i \in 1..Len(trigs[t].records) :
                    (/\ Truthy(trigs[t].records[i].num)
                     /\ ~IsNotRequired(trigs[t].records[i].dev))
                    => parsedData[<< trigs[t].userId, trigs[t].records[i].num >>] >= 1
           /\ trigs[t].sentMessagesCount = Cardinality(CreatedByTrigger(trigs[t].userId))

\* the rows of a region's answer whose notification a send has delivered to
\* at least one user
DeliveredRows(region) ==
    { i \in 1..Len(registry[region]) :
        \E u \in Users : sendOk[<< u, registry[region][i].num >>] >= 1 }

\* no row is counted twice: handled and skipped rows together are at most
\* the rows fetched
CountsEachRowOnce(res) ==
    res.processedRecords + res.skippedRecords <= res.totalRecords

\* C35: a ProcessingResult counts in processedRecords only rows whose
\* notification was delivered to at least one subscriber, and no row in both
\* processedRecords and skippedRecords: their sum is at most totalRecords.
C35_ProcessedMeansDelivered ==
    \A s \in RunSlots :
        LET held == IF runs[s].result.region \in Regions
                    THEN Append(runs[s].results, runs[s].result)
                    ELSE runs[s].results
        IN \A i \in 1..Len(held) :
              /\ held[i].processedRecords <= Cardinality(DeliveredRows(held[i].region))
              /\ CountsEachRowOnce(held[i])

\* what hasAccess grants the pipeline to: a configured admin, or a users row
\* bound to the chat
HasAccessNow(userId) == isAdmin(userId) \/ FindByUserId(users, userId) # 0

\* userId is among the subscribers run s collected
Subscribes(s, userId) ==
    \E i \in 1..Len(runs[s].regionUserMaps) :
       InSeq(userId, runs[s].regionUserMaps[i].userIds)

\* C36: a scheduled run that starts after an admin's deletion of a user has
\* settled does not have that user among its subscribers, so it sends the
\* user nothing
C36_RunsNotifyOnlyUsersWithAccess ==
    \A i \in HandlerSlots : \A s \in RunSlots :
       (/\ InSeq("usersDeleted", handlers[i].replies)
        /\ runs[s].pc # "idle"
        /\ runs[s].startedAt > handlers[i].at)
       => \A j \in 1..Len(handlers[i].notify) :
             \/ HasAccessNow(handlers[i].notify[j])
             \/ ~Subscribes(s, handlers[i].notify[j])


\* C37: a step of the listener on a message other than '/start', for which
\* hasAccess answered 'registered' or 'none', leaves userAction and the users
\* and configurations tables alone and starts no triggerImmediateParse; all
\* the activation does is send the activation prompt
C37_GatekeeperBlocks ==
    [][ \A i \in HandlerSlots :
           (/\ handlers'[i] # handlers[i]
            /\ handlers'[i].text.kind # "start"
            /\ handlers'[i].access \in {"registered", "none"})
           => /\ UNCHANGED << userAction, users, configs, trigs >>
              /\ handlers'[i].pc = "done"
              /\ handlers'[i].replies = << "pressStart" >> ]_vars

\* the chat pressed "add region" while it had access, lost it, and its next
\* text was answered with the activation prompt, the action still pending
C37_Witness ==
    \E i \in HandlerSlots :
       /\ handlers[i].pc = "done"
       /\ handlers[i].text = ItemsText(<<"78">>)
       /\ handlers[i].access = "none"
       /\ handlers[i].replies = << "pressStart" >>
       /\ userAction[handlers[i].chatId] = "add_region"

\* C38: the userId of a users row changes only from empty, and only to the
\* chat of a '/start' whose sender's username is the row's; a userId that is
\* set is never changed
C38_BoundOnce ==
    [][ \A r \in 1..Len(users) :
           users'[r].userId # users[r].userId
           => /\ users[r].userId = NoChat
              /\ \E i \in HandlerSlots :
                    /\ handlers[i].pc = "startSave"
                    /\ handlers[i].text.kind = "start"
                    /\ handlers[i].row = r
                    /\ handlers[i].username = users[r].username
                    /\ handlers[i].chatId = users'[r].userId ]_vars

\* the regions handler i told its chat it added
Acknowledged(i) ==
    IF InSeq("added", handlers[i].replies) THEN handlers[i].added ELSE <<>>

\* the chat of handler i was told that region was deleted on its request
RemovedByUser(i, region) ==
    \E j \in HandlerSlots :
       /\ handlers[j].chatId = handlers[i].chatId
       /\ InSeq("deleted", handlers[j].replies)
       /\ InSeq(region, handlers[j].deleted)

\* C39: a region the bot acknowledged as added is in the persisted list of
\* the chat unless the chat removed it, whatever the interleaving of
\* handleAddRegion and handleDeleteRegionsByInput
C39_NoLostUpdate ==
    \A i \in HandlerSlots :
       \A k \in 1..Len(Acknowledged(i)) :
          \/ InSeq(Acknowledged(i)[k], getUserConfig(configs, handlers[i].chatId))
          \/ RemovedByUser(i, Acknowledged(i)[k])
====
